---- MODULE Spec2Model ----
(***************************************************************************)
(* PyErrorSchema: the error-schema factories (ErrorSchema and              *)
(* FastAPIErrorSchema), the caller-location resolver and the exception     *)
(* mapper with its two lru caches.                                         *)
(*                                                                         *)
(* Python strings on which the code computes (tags, messages, paths) are   *)
(* sequences of one-character strings, so that replace, capitalize, lower, *)
(* startswith and concatenation are computed as the code computes them.    *)
(* Names that the code only compares or uses as dictionary keys (module    *)
(* names, class names, keyword names) are plain strings.                   *)
(*                                                                         *)
(* An optional value (a keyword that may be absent from **kwargs, a value  *)
(* that may be None) is a sequence of length 0 or 1.                       *)
(***************************************************************************)
EXTENDS Integers, Sequences, FiniteSets, TLC

VARIABLES
    last,           \* the call made last by the caller and its outcome
    mapping_cache,  \* lru_cache of ExceptionMapper.get_mapping: the cached keys
    type_cache      \* lru_cache of ExceptionMapper.get_error_type: key -> result

vars == <<last, mapping_cache, type_cache>>

(***************************************************************************)
(* Strings.                                                                *)
(***************************************************************************)
UpperChars ==
    <<"A", "B", "C", "D", "E", "F", "G", "H", "I", "J", "K", "L", "M", "N", "O", "P", "Q", "R", "S", "T", "U", "V", "W", "X", "Y", "Z">>

LowerChars ==
    <<"a", "b", "c", "d", "e", "f", "g", "h", "i", "j", "k", "l", "m", "n", "o", "p", "q", "r", "s", "t", "u", "v", "w", "x", "y", "z">>

\* str.lower() of one character
CharLower(c) ==
    IF \E i \in 1..26 : UpperChars[i] = c
    THEN LowerChars[CHOOSE i \in 1..26 : UpperChars[i] = c]
    ELSE c

\* str.upper() of one character
CharUpper(c) ==
    IF \E i \in 1..26 : LowerChars[i] = c
    THEN UpperChars[CHOOSE i \in 1..26 : LowerChars[i] = c]
    ELSE c

\* s.lower()
StrLower(s) == [i \in 1..Len(s) |-> CharLower(s[i])]

\* s.capitalize(): first character upper-cased, every other one lower-cased
Capitalize(s) ==
    [i \in 1..Len(s) |-> IF i = 1 THEN CharUpper(s[i]) ELSE CharLower(s[i])]

\* s.replace(old, new) for one-character old and new
Replace(s, old, new) == [i \in 1..Len(s) |-> IF s[i] = old THEN new ELSE s[i]]

\* s.startswith(p)
StartsWith(s, p) == Len(p) <= Len(s) /\ SubSeq(s, 1, Len(p)) = p

\* s[0:1]
Head1(s) == IF Len(s) = 0 THEN <<>> ELSE <<s[1]>>

\* s[1:]
Tail1(s) == IF Len(s) = 0 THEN <<>> ELSE SubSeq(s, 2, Len(s))

\* s.strip(): white space removed at both ends
RECURSIVE LStrip(_)
LStrip(s) == IF Len(s) > 0 /\ s[1] = " " THEN LStrip(Tail1(s)) ELSE s

RECURSIVE RStrip(_)
RStrip(s) ==
    IF Len(s) > 0 /\ s[Len(s)] = " " THEN RStrip(SubSeq(s, 1, Len(s) - 1)) ELSE s

Strip(s) == RStrip(LStrip(s))

(***************************************************************************)
(* Optional values and keyword arguments.                                  *)
(***************************************************************************)
None == <<>>
Some(v) == <<v>>
IsNone(o) == Len(o) = 0
Val(o) == o[1]

\* The keywords a caller passes: one optional value per keyword name.
NoKwargs ==
    [type |-> None, msg |-> None, exc |-> None, ui_msg |-> None,
     loc |-> None, input |-> None, auto_loc |-> None]

\* "k in kwargs"
Has(kw, k) == ~IsNone(kw[k])

\* kwargs after kwargs.pop(k, ...)
Popped(kw, k) == [kw EXCEPT ![k] = None]

(***************************************************************************)
(* Outcomes of a call: a returned value or a raised exception.             *)
(***************************************************************************)
Returned(v) == [kind |-> "return", value |-> v]
Raised(e, why) == [kind |-> "raise", error |-> e, why |-> why]

(***************************************************************************)
(* Category tags.                                                          *)
(***************************************************************************)
s_database_error ==
    <<"d", "a", "t", "a", "b", "a", "s", "e", "_", "e", "r", "r", "o", "r">>

s_file_error ==
    <<"f", "i", "l", "e", "_", "e", "r", "r", "o", "r">>

s_runtime_error ==
    <<"r", "u", "n", "t", "i", "m", "e", "_", "e", "r", "r", "o", "r">>

s_timeout_error ==
    <<"t", "i", "m", "e", "o", "u", "t", "_", "e", "r", "r", "o", "r">>

s_parse_error ==
    <<"p", "a", "r", "s", "e", "_", "e", "r", "r", "o", "r">>

s_value_error ==
    <<"v", "a", "l", "u", "e", "_", "e", "r", "r", "o", "r">>

s_validation_error ==
    <<"v", "a", "l", "i", "d", "a", "t", "i", "o", "n", "_", "e", "r", "r", "o", "r">>

s_docker_error ==
    <<"d", "o", "c", "k", "e", "r", "_", "e", "r", "r", "o", "r">>

s_customized_error ==
    <<"c", "u", "s", "t", "o", "m", "i", "z", "e", "d", "_", "e", "r", "r", "o", "r">>

(***************************************************************************)
(* mappings/exceptions.py: the exception mapping tables.                   *)
(* A table is a function from module names to functions from class names   *)
(* to tags.                                                                *)
(***************************************************************************)
DEFAULT_ERROR_TYPE ==
    <<"u", "n", "k", "n", "o", "w", "n", "_", "e", "r", "r", "o", "r">>

EXCEPTION_MAPPINGS_BASE ==
    "builtins" :> (
        "FileNotFoundError" :> s_file_error @@
        "IsADirectoryError" :> s_file_error @@
        "NotADirectoryError" :> s_file_error @@
        "PermissionError" :> s_file_error @@
        "FileExistsError" :> s_file_error @@
        "ValueError" :> s_value_error @@
        "TypeError" :> s_value_error @@
        "AttributeError" :> s_value_error @@
        "RuntimeError" :> s_runtime_error @@
        "NotImplementedError" :> s_runtime_error @@
        "ImportError" :> s_runtime_error @@
        "OSError" :> s_runtime_error @@
        "Exception" :> DEFAULT_ERROR_TYPE @@
        "BaseException" :> DEFAULT_ERROR_TYPE @@
        "object" :> DEFAULT_ERROR_TYPE) @@
    "json.decoder" :> ("JSONDecodeError" :> s_value_error) @@
    "requests.exceptions" :> ("Timeout" :> s_timeout_error) @@
    "psycopg2" :> (
        "OperationalError" :> s_database_error @@
        "ProgrammingError" :> s_database_error @@
        "IntegrityError" :> s_database_error @@
        "DataError" :> s_database_error @@
        "DatabaseError" :> s_database_error @@
        "InterfaceError" :> s_database_error @@
        "Warning" :> s_database_error) @@
    "psycopg2.errors" :> (
        "UndefinedTable" :> s_value_error @@
        "ForeignKeyViolation" :> s_value_error @@
        "UndefinedColumn" :> s_value_error @@
        "UniqueViolation" :> s_value_error @@
        "NotNullViolation" :> s_value_error) @@
    "psycopg2.pool" :> ("PoolError" :> s_database_error)

\* {**EXCEPTION_MAPPINGS_BASE, ...}: a later key replaces an earlier one
EXCEPTION_MAPPINGS_FASTAPI ==
    ("docker.errors" :> (
        "APIError" :> s_docker_error @@
        "ContainerError" :> s_docker_error @@
        "DockerException" :> s_docker_error @@
        "ImageNotFound" :> s_docker_error @@
        "NotFound" :> s_docker_error) @@
     "pydantic_core._pydantic_core" :> ("ValidationError" :> s_validation_error))
    @@ EXCEPTION_MAPPINGS_BASE

\* d.get(k, None) as an optional value
DictGet(d, k) == IF k \in DOMAIN d THEN Some(d[k]) ELSE None

(***************************************************************************)
(* mappings/mapper.py: ExceptionMapper.                                    *)
(*                                                                         *)
(* The mapper's operations below take the caches and return the outcome    *)
(* together with the caches as the call leaves them.  get_mapping is       *)
(* lru_cache(maxsize=None); get_error_type is lru_cache(maxsize=128): the  *)
(* model's universe of lookup keys is smaller than 128, so that cache is   *)
(* never full, nothing is evicted and its recency order is unobservable:   *)
(* both caches are dictionaries from the call's arguments to the returned  *)
(* value.  lru_cache stores nothing for a call that raises.  The cached    *)
(* value of get_mapping is a reference to one of the two table objects,    *)
(* written as the name under which SCHEMA_TO_MAPPINGS holds it.            *)
(***************************************************************************)
SCHEMA_TO_MAPPINGS ==
    "ErrorSchema" :> EXCEPTION_MAPPINGS_BASE @@
    "FastAPIErrorSchema" :> EXCEPTION_MAPPINGS_FASTAPI

_default_schema_name == "ErrorSchema"

_default_error_type == DEFAULT_ERROR_TYPE

_valid_schemas == DOMAIN SCHEMA_TO_MAPPINGS

EmptyCache == <<>>

\* the result of a mapper operation: outcome and caches
MapperResult(out, mc, tc) == [out |-> out, mc |-> mc, tc |-> tc]

validate_schema(schema_name) ==
    IF schema_name \notin _valid_schemas
    THEN Raised("ValueError", "Unknown schema")
    ELSE Returned(None)

\* key: the optional positional argument of the call (None for get_mapping())
get_mapping(mc, key) ==
    IF key \in DOMAIN mc
    THEN [out |-> Returned(mc[key]), mc |-> mc]
    ELSE LET schema_name ==
                 IF IsNone(key) \/ Val(key) = "" THEN _default_schema_name
                 ELSE Val(key)
             checked == validate_schema(schema_name)
         IN  IF checked.kind = "raise"
             THEN [out |-> checked, mc |-> mc]
             ELSE [out |-> Returned(schema_name), mc |-> (key :> schema_name) @@ mc]

\* a lookup that answers the default tag where the table has no entry
get_error_type_defaulting(mc, tc, schema_name, exc_module, exc_class) ==
    LET key == <<schema_name, exc_module, exc_class>> IN
    IF key \in DOMAIN tc
    THEN MapperResult(Returned(tc[key]), mc, tc)
    ELSE LET m == get_mapping(mc, Some(schema_name)) IN
         IF m.out.kind = "raise"
         THEN MapperResult(m.out, m.mc, tc)
         ELSE LET mapping == SCHEMA_TO_MAPPINGS[m.out.value]
                  inner == DictGet(mapping, exc_module)
                  error_type ==
                      IF IsNone(inner) \/ IsNone(DictGet(Val(inner), exc_class))
                      THEN Some(_default_error_type)
                      ELSE DictGet(Val(inner), exc_class)
              IN  MapperResult(Returned(error_type), m.mc, (key :> error_type) @@ tc)

\* a lookup cached under the default profile, whatever the profile asked for
get_error_type_unkeyed(mc, tc, schema_name, exc_module, exc_class) ==
    LET key == <<_default_schema_name, exc_module, exc_class>> IN
    IF key \in DOMAIN tc
    THEN MapperResult(Returned(tc[key]), mc, tc)
    ELSE LET m == get_mapping(mc, Some(schema_name)) IN
         IF m.out.kind = "raise"
         THEN MapperResult(m.out, m.mc, tc)
         ELSE LET mapping == SCHEMA_TO_MAPPINGS[m.out.value]
                  inner == DictGet(mapping, exc_module)
                  error_type ==
                      IF IsNone(inner) THEN None ELSE DictGet(Val(inner), exc_class)
              IN  MapperResult(Returned(error_type), m.mc, (key :> error_type) @@ tc)

get_error_type(mc, tc, schema_name, exc_module, exc_class) ==
    LET key == <<schema_name, exc_module, exc_class>> IN
    IF key \in DOMAIN tc
    THEN MapperResult(Returned(tc[key]), mc, tc)
    ELSE LET m == get_mapping(mc, Some(schema_name)) IN
         IF m.out.kind = "raise"
         THEN MapperResult(m.out, m.mc, tc)
         ELSE LET mapping == SCHEMA_TO_MAPPINGS[m.out.value]
                  inner == DictGet(mapping, exc_module)
                  error_type ==
                      IF IsNone(inner) THEN None ELSE DictGet(Val(inner), exc_class)
              IN  MapperResult(Returned(error_type), m.mc, (key :> error_type) @@ tc)

(***************************************************************************)
(* Exception objects.  An exception class is its method resolution order,  *)
(* a sequence of classes [module, name] from the class itself to object;   *)
(* an exception instance has its class, its args, and its optional         *)
(* __cause__ and __context__.                                              *)
(***************************************************************************)
Cls(m, n) == [module |-> m, name |-> n]

Derived(m, n, base_mro) == <<Cls(m, n)>> \o base_mro

mro_BaseException == <<Cls("builtins", "BaseException"), Cls("builtins", "object")>>

mro_Exception == Derived("builtins", "Exception", mro_BaseException)

\* isinstance(exc, Exception)
IsException(mro) == \E i \in 1..Len(mro) : mro[i] = Cls("builtins", "Exception")

\* a walk that passes over the entry of Exception and does not stop at
\* BaseException: it goes on to the end of the mro
RECURSIVE WalkWholeMro(_, _, _, _, _, _)
WalkWholeMro(mc, tc, schema_name, exc_mro, i, looked) ==
    IF i > Len(exc_mro)
    THEN [out |-> Returned(_default_error_type), mc |-> mc, tc |-> tc, looked |-> looked]
    ELSE LET r == get_error_type(mc, tc, schema_name, exc_mro[i].module, exc_mro[i].name)
             seen == Append(looked, exc_mro[i])
         IN  IF r.out.kind = "raise"
             THEN [out |-> r.out, mc |-> r.mc, tc |-> r.tc, looked |-> seen]
             ELSE IF ~IsNone(r.out.value) /\ exc_mro[i].name # "Exception"
             THEN [out |-> Returned(Val(r.out.value)), mc |-> r.mc, tc |-> r.tc,
                   looked |-> seen]
             ELSE WalkWholeMro(r.mc, r.tc, schema_name, exc_mro, i + 1, seen)

\* the walk of get_error_type_from_exception from position i of the mro;
\* looked is the sequence of classes looked up so far
RECURSIVE WalkMro(_, _, _, _, _, _)
WalkMro(mc, tc, schema_name, exc_mro, i, looked) ==
    IF i > Len(exc_mro) \/ exc_mro[i].name = "BaseException"
    THEN [out |-> Returned(_default_error_type), mc |-> mc, tc |-> tc, looked |-> looked]
    ELSE LET r == get_error_type(mc, tc, schema_name, exc_mro[i].module, exc_mro[i].name)
             seen == Append(looked, exc_mro[i])
         IN  IF r.out.kind = "raise"
             THEN [out |-> r.out, mc |-> r.mc, tc |-> r.tc, looked |-> seen]
             ELSE IF ~IsNone(r.out.value)
             THEN [out |-> Returned(Val(r.out.value)), mc |-> r.mc, tc |-> r.tc,
                   looked |-> seen]
             ELSE WalkMro(r.mc, r.tc, schema_name, exc_mro, i + 1, seen)

\* exc_mro: the mro of type(exc)
get_error_type_from_exception(mc, tc, schema_name, exc_mro) ==
    IF ~IsException(exc_mro)
    THEN [out |-> Raised("TypeError", "Expected Exception"), mc |-> mc, tc |-> tc,
          looked |-> <<>>]
    ELSE WalkMro(mc, tc, schema_name, exc_mro, 1, <<>>)

\* an exception instance; an element of args is a string or a schema instance
Exc(mro, args, cause, context) ==
    [mro |-> mro, args |-> args, cause |-> cause, context |-> context]

StrArg(s) == [kind |-> "str", value |-> s]
SchemaArg(inst) == [kind |-> "schema", value |-> inst]

\* str(exc) of an exception with no argument, or with one argument, a string
ExcStr(e) == IF Len(e.args) = 0 THEN <<>> ELSE e.args[1].value

(***************************************************************************)
(* base/err_base.py: ErrorSchema, and the pydantic model behind it.        *)
(* An ErrorSchema instance is [cls, type, msg]; a FastAPIErrorSchema       *)
(* instance is [cls, type, msg, ui_msg, loc, input].                       *)
(***************************************************************************)
KwNames == {"type", "msg", "exc", "ui_msg", "loc", "input", "auto_loc"}

\* the declared fields of the two models
ModelFields(cls) ==
    IF cls = "ErrorSchema" THEN {"type", "msg"}
    ELSE {"type", "msg", "ui_msg", "loc", "input"}

\* the value of field k: the keyword's value, or the field's declared default
FieldOr(given, k, default) == IF Has(given, k) THEN Val(given[k]) ELSE default

\* cls(**given): model_config = ConfigDict(extra="forbid")
Construct(cls, given) ==
    IF \E k \in KwNames \ ModelFields(cls) : Has(given, k)
    THEN Raised("ValidationError", "Extra inputs are not permitted")
    ELSE IF cls = "ErrorSchema"
    THEN Returned([cls |-> cls,
                   type |-> FieldOr(given, "type", <<>>),
                   msg |-> FieldOr(given, "msg", <<>>)])
    ELSE Returned([cls |-> cls,
                   type |-> FieldOr(given, "type", <<>>),
                   msg |-> FieldOr(given, "msg", <<>>),
                   ui_msg |-> given.ui_msg,
                   loc |-> FieldOr(given, "loc", <<>>),
                   input |-> FieldOr(given, "input", <<>>)])

\* cls(type=t, msg=m, **kw): a keyword given twice is a TypeError of the call
ConstructWith(cls, t, m, kw) ==
    IF Has(kw, "type")
    THEN Raised("TypeError", "got multiple values for keyword argument")
    ELSE Construct(cls, [kw EXCEPT !.type = Some(t), !.msg = Some(m)])

\* error_type.replace("_", " ").capitalize()
PrettyType(error_type) == Capitalize(Replace(error_type, "_", " "))

\* f" ({str(exc)})"
ExcSuffix(e) == <<" ", "(">> \o ExcStr(e) \o <<")">>

\* ErrorSchema._create_error(error_type, default_msg, **kwargs)
Base_create_error(cls, error_type, default_msg, kwargs) ==
    LET msg0 == IF Has(kwargs, "msg") THEN Val(kwargs.msg) ELSE default_msg
        kw == Popped(kwargs, "msg")
        msg1 == IF Has(kw, "exc") THEN msg0 \o ExcSuffix(Val(kw.exc)) ELSE msg0
        pretty_type == PrettyType(error_type)
    IN  IF Len(msg1) = 0
        THEN Raised("IndexError", "string index out of range")
        ELSE LET msg == <<CharLower(msg1[1])>> \o Tail1(msg1)
             IN  ConstructWith(cls, error_type, pretty_type \o <<":", " ">> \o msg, kw)

(***************************************************************************)
(* fastapi/location.py: the caller-location resolver.                      *)
(* The environment of a call is the call stack (innermost frame first,     *)
(* each frame [filename, lineno, function]) and the optional __file__ of   *)
(* the __main__ module.  Paths are strings, split into their components    *)
(* where pathlib does so.                                                   *)
(***************************************************************************)
\* the directory the package is installed in: str(Path(__file__).parents[1])
ROOT_DIR ==
    <<"/", "l", "i", "b", "/", "p", "y", "e", "r", "r", "o", "r", "s", "c", "h", "e", "m", "a">>

DigitChars == <<"0", "1", "2", "3", "4", "5", "6", "7", "8", "9">>

\* f"{n}" of a natural number
RECURSIVE IntStr(_)
IntStr(n) ==
    IF n < 10 THEN <<DigitChars[n + 1]>>
    ELSE IntStr(n \div 10) \o <<DigitChars[(n % 10) + 1]>>

\* the components of a path between its separators; cur is the component being read
RECURSIVE PathComps(_, _, _)
PathComps(p, i, cur) ==
    IF i > Len(p) THEN (IF cur = <<>> THEN <<>> ELSE <<cur>>)
    ELSE IF p[i] = "/"
    THEN (IF cur = <<>> THEN <<>> ELSE <<cur>>) \o PathComps(p, i + 1, <<>>)
    ELSE PathComps(p, i + 1, Append(cur, p[i]))

\* Path(p): whether it has a root, and its components
PathOf(p) ==
    [root |-> Len(p) > 0 /\ p[1] = "/", comps |-> PathComps(p, 1, <<>>)]

\* Path.parent
PathParent(q) ==
    [q EXCEPT !.comps = IF Len(@) = 0 THEN @ ELSE SubSeq(@, 1, Len(@) - 1)]

\* "/".join(comps)
RECURSIVE JoinComps(_)
JoinComps(comps) ==
    IF Len(comps) = 0 THEN <<>>
    ELSE IF Len(comps) = 1 THEN comps[1]
    ELSE comps[1] \o <<"/">> \o JoinComps(Tail(comps))

\* str(Path)
PathStr(q) ==
    IF q.root THEN <<"/">> \o JoinComps(q.comps)
    ELSE IF Len(q.comps) = 0 THEN <<".">>
    ELSE JoinComps(q.comps)

\* Path.relative_to(other): None stands for the ValueError it raises
RelativeTo(q, other) ==
    IF q.root = other.root
       /\ Len(other.comps) <= Len(q.comps)
       /\ SubSeq(q.comps, 1, Len(other.comps)) = other.comps
    THEN Some([root |-> FALSE,
               comps |-> SubSeq(q.comps, Len(other.comps) + 1, Len(q.comps))])
    ELSE None

\* the optional directory of the entry-point script
_get_entrypoint(env) ==
    IF IsNone(env.main_file) THEN None
    ELSE Some(PathParent(PathOf(Val(env.main_file))))

\* the loop of get_caller_location over inspect.stack(), from frame i
RECURSIVE ScanStack(_, _, _)
ScanStack(stack, i, entrypoint) ==
    IF i > Len(stack) THEN Returned(None)
    ELSE IF StartsWith(stack[i].filename, ROOT_DIR)
    THEN ScanStack(stack, i + 1, entrypoint)
    ELSE LET frame == stack[i]
             rel == IF IsNone(entrypoint) THEN None
                    ELSE RelativeTo(PathOf(frame.filename), Val(entrypoint))
             tail == <<":">> \o IntStr(frame.lineno) \o <<":">> \o frame.function
         IN  IF IsNone(entrypoint)
             THEN Returned(Some(frame.filename \o tail))
             ELSE IF IsNone(rel)
             THEN Raised("ValueError", "is not in the subpath of")
             ELSE Returned(Some(PathStr(Val(rel)) \o tail))

get_caller_location(env) == ScanStack(env.stack, 1, _get_entrypoint(env))

(***************************************************************************)
(* fastapi/fastapi_base.py: FastAPIErrorSchema.                            *)
(***************************************************************************)
\* "x or y" of an optional string x: None and "" are false
StrOr(x, y) == IF IsNone(x) \/ Len(Val(x)) = 0 THEN y ELSE Val(x)

\* FastAPIErrorSchema._create_error(error_type, default_msg, auto_loc=True, **kwargs)
FastAPI_create_error(cls, error_type, default_msg, kwargs, env) ==
    LET auto_loc == IF Has(kwargs, "auto_loc") THEN Val(kwargs.auto_loc) ELSE TRUE
        exc == kwargs.exc
        ui_msg == kwargs.ui_msg
        msg == IF Has(kwargs, "msg") THEN Val(kwargs.msg) ELSE default_msg
        kw == [kwargs EXCEPT !.auto_loc = None, !.exc = None, !.ui_msg = None,
                             !.msg = None]
        backend0 == IF IsNone(exc) THEN msg ELSE msg \o ExcSuffix(Val(exc))
        frontend_msg == Strip(Capitalize(StrOr(ui_msg, msg)))
        resolve == auto_loc /\ ~Has(kw, "loc")
        located == IF resolve THEN get_caller_location(env) ELSE Returned(None)
        pretty_type == PrettyType(error_type) \o <<":">>
        backend_msg ==
            IF StartsWith(backend0, pretty_type) THEN backend0
            ELSE pretty_type \o <<" ">> \o StrLower(Head1(backend0)) \o Tail1(backend0)
    IN  IF located.kind = "raise" THEN located
        ELSE LET kw2 == IF IsNone(located.value) THEN kw
                        ELSE [kw EXCEPT !.loc = Some(<<Val(located.value)>>)]
             IN  IF Has(kw2, "type")
                 THEN Raised("TypeError", "got multiple values for keyword argument")
                 ELSE Construct(cls, [kw2 EXCEPT !.type = Some(error_type),
                                                 !.msg = Some(backend_msg),
                                                 !.ui_msg = Some(frontend_msg)])

\* cls._create_error(...): the builder of the class the factory is called on
_create_error(cls, error_type, default_msg, kwargs, env) ==
    IF cls = "FastAPIErrorSchema"
    THEN FastAPI_create_error(cls, error_type, default_msg, kwargs, env)
    ELSE Base_create_error(cls, error_type, default_msg, kwargs)

\* @restrict_arguments("type"): the wrapper around a named factory
\* a wrapper that lets every keyword through
restrict_arguments_open(forbidden_arg, kwargs) == Returned(None)

restrict_arguments(forbidden_arg, kwargs) ==
    IF Has(kwargs, forbidden_arg)
    THEN Raised("ValueError", "Overriding the field is not allowed")
    ELSE Returned(None)

\* a named factory: the wrapper's check, then the builder with the bound tag
\* and default message
NamedFactory(cls, error_type, default_msg, kwargs, env) ==
    LET checked == restrict_arguments("type", kwargs) IN
    IF checked.kind = "raise" THEN checked
    ELSE _create_error(cls, error_type, default_msg, kwargs, env)

database_error(cls, kwargs, env) ==
    NamedFactory(cls, s_database_error,
        <<"D", "a", "t", "a", "b", "a", "s", "e", " ", "e", "r", "r", "o", "r", " ", "o", "c", "c", "u", "r", "r", "e", "d", ".">>,
        kwargs, env)

file_error(cls, kwargs, env) ==
    NamedFactory(cls, s_file_error,
        <<"F", "i", "l", "e", " ", "e", "r", "r", "o", "r", " ", "o", "c", "c", "u", "r", "r", "e", "d", ".">>,
        kwargs, env)

runtime_error(cls, kwargs, env) ==
    NamedFactory(cls, s_runtime_error,
        <<"R", "u", "n", "t", "i", "m", "e", " ", "e", "r", "r", "o", "r", " ", "o", "c", "c", "u", "r", "r", "e", "d", ".">>,
        kwargs, env)

timeout_error(cls, kwargs, env) ==
    NamedFactory(cls, s_timeout_error,
        <<"T", "i", "m", "e", "o", "u", "t", " ", "e", "r", "r", "o", "r", " ", "o", "c", "c", "u", "r", "r", "e", "d", ".">>,
        kwargs, env)

parse_error(cls, kwargs, env) ==
    NamedFactory(cls, s_parse_error,
        <<"P", "a", "r", "s", "e", " ", "e", "r", "r", "o", "r", " ", "o", "c", "c", "u", "r", "r", "e", "d", ".">>,
        kwargs, env)

value_error(cls, kwargs, env) ==
    NamedFactory(cls, s_value_error,
        <<"V", "a", "l", "u", "e", " ", "e", "r", "r", "o", "r", " ", "o", "c", "c", "u", "r", "r", "e", "d", ".">>,
        kwargs, env)

\* FastAPIErrorSchema only
validation_error(cls, kwargs, env) ==
    NamedFactory(cls, s_validation_error,
        <<"V", "a", "l", "i", "d", "a", "t", "i", "o", "n", " ", "e", "r", "r", "o", "r", " ", "o", "c", "c", "u", "r", "r", "e", "d", ".">>,
        kwargs, env)

\* FastAPIErrorSchema only
docker_error(cls, kwargs, env) ==
    NamedFactory(cls, s_docker_error,
        <<"D", "o", "c", "k", "e", "r", " ", "e", "r", "r", "o", "r", " ", "o", "c", "c", "u", "r", "r", "e", "d", ".">>,
        kwargs, env)

customized_error(cls, kwargs, env) ==
    LET error_type == IF Has(kwargs, "type") THEN Val(kwargs.type) ELSE s_customized_error
    IN  _create_error(cls, error_type,
            <<"C", "u", "s", "t", "o", "m", "i", "z", "e", "d", " ", "e", "r", "r", "o", "r", " ", "o", "c", "c", "u", "r", "r", "e", "d", ".">>,
            Popped(kwargs, "type"), env)

\* isinstance(a, cls) of an element of exc.args
IsInstance(a, cls) ==
    /\ a.kind = "schema"
    /\ \/ a.value.cls = cls
       \/ cls = "ErrorSchema" /\ a.value.cls = "FastAPIErrorSchema"

\* cls.from_exception(exc, **kwargs); the result carries the mapper's caches
from_exception(cls, exc, kwargs, env, mc, tc) ==
    IF ~IsException(exc.mro)
    THEN MapperResult(Raised("TypeError", "Expected Exception"), mc, tc)
    ELSE IF Len(exc.args) = 0
    THEN MapperResult(Raised("IndexError", "tuple index out of range"), mc, tc)
    ELSE IF IsInstance(exc.args[1], cls)
    THEN MapperResult(Returned(exc.args[1].value), mc, tc)
    ELSE LET cause == IF ~IsNone(exc.cause) THEN exc.cause ELSE exc.context
             mapped == get_error_type_from_exception(mc, tc, cls, exc.mro)
         IN  IF mapped.out.kind = "raise"
             THEN MapperResult(mapped.out, mapped.mc, mapped.tc)
             ELSE LET kw1 == [kwargs EXCEPT !.msg = Some(ExcStr(exc))]
                      kw2 == IF IsNone(cause) THEN kw1
                             ELSE [kw1 EXCEPT !.exc = cause]
                  IN  MapperResult(
                          _create_error(cls, mapped.out.value,
                              <<"E", "r", "r", "o", "r", " ", "o", "c", "c", "u", "r", "r", "e", "d", ".">>,
                              kw2, env),
                          mapped.mc, mapped.tc)

(***************************************************************************)
(* base/err_base.py: ErrorSchema.list_available_errors.                    *)
(***************************************************************************)
s__create_error == <<"_", "c", "r", "e", "a", "t", "e", "_", "e", "r", "r", "o", "r">>
s_from_exception == <<"f", "r", "o", "m", "_", "e", "x", "c", "e", "p", "t", "i", "o", "n">>
s_get_mapping == <<"g", "e", "t", "_", "m", "a", "p", "p", "i", "n", "g">>
s_list_available_errors == <<"l", "i", "s", "t", "_", "a", "v", "a", "i", "l", "a", "b", "l", "e", "_", "e", "r", "r", "o", "r", "s">>
s_model_construct == <<"m", "o", "d", "e", "l", "_", "c", "o", "n", "s", "t", "r", "u", "c", "t">>
s_model_validate == <<"m", "o", "d", "e", "l", "_", "v", "a", "l", "i", "d", "a", "t", "e">>

\* inspect.getmembers(cls, predicate=inspect.ismethod): the names of the
\* methods bound to the class, sorted by name; of those BaseModel brings
\* along, two stand for all (none of their names ends in "_error")
ClassMethodNames(cls) ==
    IF cls = "FastAPIErrorSchema"
    THEN <<s__create_error, s_customized_error, s_database_error, s_docker_error,
           s_file_error, s_from_exception, s_get_mapping, s_list_available_errors,
           s_model_construct, s_model_validate, s_parse_error, s_runtime_error,
           s_timeout_error, s_validation_error, s_value_error>>
    ELSE <<s__create_error, s_customized_error, s_database_error, s_file_error,
           s_from_exception, s_get_mapping, s_list_available_errors,
           s_model_construct, s_model_validate, s_parse_error, s_runtime_error,
           s_timeout_error, s_value_error>>

\* name.endswith("_error")
EndsWithError(name) ==
    Len(name) >= 6 /\ SubSeq(name, Len(name) - 5, Len(name)) = <<"_", "e", "r", "r", "o", "r">>

\* a listing that keeps the names that begin with an underscore
list_available_errors_with_private(cls) ==
    Returned(SelectSeq(ClassMethodNames(cls), EndsWithError))

\* ErrorSchema.list_available_errors()
list_available_errors(cls) ==
    LET listed(name) == EndsWithError(name) /\ ~StartsWith(name, <<"_">>)
    IN  Returned(SelectSeq(ClassMethodNames(cls), listed))

(***************************************************************************)
(* The inputs of the calls.                                                *)
(***************************************************************************)
SchemaClasses == {"ErrorSchema", "FastAPIErrorSchema"}

m_plain ==
    <<"C", "o", "n", "n", "e", "c", "t", "i", "o", "n", " ", "r", "e", "f", "u", "s", "e", "d">>

\* a message that already begins with the readable type and a colon
m_prefixed(error_type) == PrettyType(error_type) \o <<":", "x">>

MsgOpts(error_type) ==
    {None, Some(<<>>), Some(m_plain), Some(m_prefixed(error_type))}

mro_ValueError == Derived("builtins", "ValueError", mro_Exception)

\* class AppError(Exception), defined in the module app
mro_AppError == Derived("app", "AppError", mro_Exception)

\* class BaseException(ValueError), defined in the module app
mro_NamedLikeRoot == Derived("app", "BaseException", mro_ValueError)

\* KeyboardInterrupt: a BaseException that is no Exception
mro_KeyboardInterrupt == Derived("builtins", "KeyboardInterrupt", mro_BaseException)

e_boom == Exc(mro_ValueError, <<StrArg(<<"b", "o", "o", "m">>)>>, None, None)

e_bare == Exc(mro_Exception, <<>>, None, None)

e_root ==
    Exc(mro_AppError,
        <<StrArg(<<"r", "o", "o", "t", " ", "c", "a", "u", "s", "e">>)>>, None, None)

ExcOpts == {None, Some(e_boom), Some(e_bare)}

TypeOpts == {None, Some(<<"x">>)}

CustomTypeOpts == {None, Some(<<>>), Some(<<"x">>), Some(s_file_error)}

UiMsgOpts ==
    {None, Some(<<"P", "l", "e", "a", "s", "e", " ", "r", "e", "t", "r", "y">>)}

LocOpts == {None, Some(<<<<"r", "e", "q", "u", "e", "s", "t">>>>)}

InputOpts == {None, Some("data" :> "some data")}

AutoLocOpts == {None, Some(FALSE)}

\* the keywords given to a factory of cls; ErrorSchema declares no ui_msg,
\* input or auto_loc, and loc stands for the keywords it does not declare
KwargsFor(cls, types, msgs, inputs) ==
    IF cls = "ErrorSchema"
    THEN [type : types, msg : msgs, exc : ExcOpts, ui_msg : {None},
          loc : LocOpts, input : {None}, auto_loc : {None}]
    ELSE [type : types, msg : msgs, exc : ExcOpts, ui_msg : UiMsgOpts,
          loc : LocOpts, input : inputs, auto_loc : AutoLocOpts]

Frame(filename, lineno, function) ==
    [filename |-> filename, lineno |-> lineno, function |-> function]

\* the frames of the library itself on top of every stack the resolver sees
LibFrames ==
    <<Frame(ROOT_DIR \o <<"/", "f", "a", "s", "t", "a", "p", "i", "/", "l", "o", "c", "a", "t", "i", "o", "n", ".", "p", "y">>,
            45, <<"g", "e", "t", "_", "c", "a", "l", "l", "e", "r", "_", "l", "o", "c", "a", "t", "i", "o", "n">>),
      Frame(ROOT_DIR \o <<"/", "f", "a", "s", "t", "a", "p", "i", "/", "f", "a", "s", "t", "a", "p", "i", "_", "b", "a", "s", "e", ".", "p", "y">>,
            119, <<"_", "c", "r", "e", "a", "t", "e", "_", "e", "r", "r", "o", "r">>)>>

f_app_main == <<"/", "a", "p", "p", "/", "m", "a", "i", "n", ".", "p", "y">>

f_srv_job == <<"/", "s", "r", "v", "/", "j", "o", "b", ".", "p", "y">>

fn_handler == <<"h", "a", "n", "d", "l", "e", "r">>

Env(callers, main_file) == [stack |-> LibFrames \o callers, main_file |-> main_file]

\* a script /app/main.py calling the library from its own file
EnvScript == Env(<<Frame(f_app_main, 42, fn_handler)>>, Some(f_app_main))

\* an interactive session: the __main__ module has no __file__
EnvNoMain == Env(<<Frame(f_app_main, 7, fn_handler)>>, None)

\* the caller's file lies outside the directory of the entry-point script
EnvOutside == Env(<<Frame(f_srv_job, 7, fn_handler)>>, Some(f_app_main))

\* no frame outside the library
EnvLibOnly == Env(<<>>, Some(f_app_main))

Envs == {EnvScript, EnvNoMain, EnvOutside, EnvLibOnly}

\* the stack is inspected only by the builder of FastAPIErrorSchema, and only
\* with auto_loc left on and no loc given: the other calls are made from EnvScript
EnvsOf(cls, kwargs) ==
    IF cls = "FastAPIErrorSchema" /\ ~Has(kwargs, "auto_loc") /\ ~Has(kwargs, "loc")
    THEN Envs
    ELSE {EnvScript}

\* an instance built earlier and carried by an exception as its first argument
carried_schema ==
    [cls |-> "FastAPIErrorSchema", type |-> s_file_error,
     msg |-> <<"F", "i", "l", "e", " ", "e", "r", "r", "o", "r", ":", " ", "g", "o", "n", "e">>,
     ui_msg |-> None, loc |-> <<>>, input |-> <<>>]

ExcArgs ==
    {<<>>, <<StrArg(<<>>)>>, <<StrArg(<<"B", "a", "d", " ", "v", "a", "l", "u", "e">>)>>,
     <<SchemaArg(carried_schema)>>}

\* the exceptions handed to from_exception
SchemaExcClasses ==
    {mro_ValueError, mro_AppError, mro_NamedLikeRoot, mro_KeyboardInterrupt}

CaughtExceptions ==
    {Exc(mro, args, cause, context) :
        mro \in SchemaExcClasses, args \in ExcArgs,
        cause \in {None, Some(e_root)}, context \in {None, Some(e_boom)}}

FromExceptionKwargs(cls) ==
    IF cls = "ErrorSchema"
    THEN [type : {None}, msg : {None}, exc : {None}, ui_msg : {None},
          loc : LocOpts, input : {None}, auto_loc : {None}]
    ELSE [type : {None}, msg : {None}, exc : {None}, ui_msg : {None},
          loc : LocOpts, input : {None}, auto_loc : AutoLocOpts]

(***************************************************************************)
(* The caller of the factories: it makes a call, receives its outcome in   *)
(* last, and goes on to the next call.                                     *)
(***************************************************************************)
NoCall == [op |-> "none"]

Call(op, cls, kwargs, exc, env, out) ==
    [op |-> op, cls |-> cls, kwargs |-> kwargs, exc |-> exc, env |-> env, out |-> out]

Init ==
    /\ last = NoCall
    /\ mapping_cache = EmptyCache
    /\ type_cache = EmptyCache

\* the call of a named factory or of customized_error: no shared state is touched
FactoryCall(op, cls, kwargs, env, out) ==
    /\ last.op = "none"
    /\ last' = Call(op, cls, kwargs, None, env, out)
    /\ UNCHANGED <<mapping_cache, type_cache>>

Call_database_error ==
    \E cls \in SchemaClasses :
    \E kwargs \in KwargsFor(cls, TypeOpts, MsgOpts(s_database_error), {None}) :
    \E env \in EnvsOf(cls, kwargs) :
        FactoryCall("database_error", cls, kwargs, env, database_error(cls, kwargs, env))

Call_file_error ==
    \E cls \in SchemaClasses :
    \E kwargs \in KwargsFor(cls, TypeOpts, MsgOpts(s_file_error), {None}) :
    \E env \in EnvsOf(cls, kwargs) :
        FactoryCall("file_error", cls, kwargs, env, file_error(cls, kwargs, env))

Call_runtime_error ==
    \E cls \in SchemaClasses :
    \E kwargs \in KwargsFor(cls, TypeOpts, MsgOpts(s_runtime_error), {None}) :
    \E env \in EnvsOf(cls, kwargs) :
        FactoryCall("runtime_error", cls, kwargs, env, runtime_error(cls, kwargs, env))

Call_timeout_error ==
    \E cls \in SchemaClasses :
    \E kwargs \in KwargsFor(cls, TypeOpts, MsgOpts(s_timeout_error), {None}) :
    \E env \in EnvsOf(cls, kwargs) :
        FactoryCall("timeout_error", cls, kwargs, env, timeout_error(cls, kwargs, env))

Call_parse_error ==
    \E cls \in SchemaClasses :
    \E kwargs \in KwargsFor(cls, TypeOpts, MsgOpts(s_parse_error), {None}) :
    \E env \in EnvsOf(cls, kwargs) :
        FactoryCall("parse_error", cls, kwargs, env, parse_error(cls, kwargs, env))

Call_value_error ==
    \E cls \in SchemaClasses :
    \E kwargs \in KwargsFor(cls, TypeOpts, MsgOpts(s_value_error), {None}) :
    \E env \in EnvsOf(cls, kwargs) :
        FactoryCall("value_error", cls, kwargs, env, value_error(cls, kwargs, env))

Call_validation_error ==
    \E cls \in {"FastAPIErrorSchema"} :
    \E kwargs \in KwargsFor(cls, TypeOpts, MsgOpts(s_validation_error), {None}) :
    \E env \in EnvsOf(cls, kwargs) :
        FactoryCall("validation_error", cls, kwargs, env,
                    validation_error(cls, kwargs, env))

Call_docker_error ==
    \E cls \in {"FastAPIErrorSchema"} :
    \E kwargs \in KwargsFor(cls, TypeOpts, MsgOpts(s_docker_error), {None}) :
    \E env \in EnvsOf(cls, kwargs) :
        FactoryCall("docker_error", cls, kwargs, env, docker_error(cls, kwargs, env))

Call_customized_error ==
    \E cls \in SchemaClasses :
    \E kwargs \in KwargsFor(cls, CustomTypeOpts, MsgOpts(s_customized_error), InputOpts) :
    \E env \in EnvsOf(cls, kwargs) :
        FactoryCall("customized_error", cls, kwargs, env,
                    customized_error(cls, kwargs, env))

Call_from_exception ==
    \E cls \in SchemaClasses : \E exc \in CaughtExceptions :
    \E kwargs \in FromExceptionKwargs(cls) : \E env \in EnvsOf(cls, kwargs) :
        LET r == from_exception(cls, exc, kwargs, env, mapping_cache, type_cache) IN
        /\ last.op = "none"
        /\ last' = Call("from_exception", cls, kwargs, Some(exc), env, r.out)
        /\ mapping_cache' = r.mc
        /\ type_cache' = r.tc

Call_list_available_errors ==
    \E cls \in SchemaClasses :
        FactoryCall("list_available_errors", cls, NoKwargs, EnvScript,
                    list_available_errors(cls))

\* the caller drops the outcome and goes on
Continue ==
    /\ last.op # "none"
    /\ last' = NoCall
    /\ UNCHANGED <<mapping_cache, type_cache>>

Next ==
    \/ Call_database_error
    \/ Call_file_error
    \/ Call_runtime_error
    \/ Call_timeout_error
    \/ Call_parse_error
    \/ Call_value_error
    \/ Call_validation_error
    \/ Call_docker_error
    \/ Call_customized_error
    \/ Call_list_available_errors
    \/ Continue

\* a caller of the named factories and of customized_error
Spec == Init /\ [][Next]_vars

ExcNext ==
    \/ Call_from_exception
    \/ Continue

\* a caller of from_exception
ExcSpec == Init /\ [][ExcNext]_vars

(***************************************************************************)
(* The caller of the mapper: lookups by profile name, by module and class  *)
(* name, and by exception, with the two caches shared between the calls.   *)
(***************************************************************************)
\* the caller clears the caches before they hold more than this many entries
MaxCached == 4

\* a clear that forgets the cache of get_error_type
clear_caches_mapping_only(mc, tc) == MapperResult(Returned(None), EmptyCache, tc)

clear_caches(mc, tc) == MapperResult(Returned(None), EmptyCache, EmptyCache)

\* ExceptionMapper.register_schema(name, mapping): the class defines no such
\* attribute, SCHEMA_TO_MAPPINGS is written nowhere and _valid_schemas is a
\* frozenset built when the class is created, so the call fails in the
\* attribute lookup and touches nothing
register_schema(mc, tc, name, mapping) ==
    MapperResult(Raised("AttributeError", "no attribute register_schema"), mc, tc)

\* the profile names a caller passes: the two registered ones and an unknown one
LookupSchemas == {"ErrorSchema", "FastAPIErrorSchema", "NoSuchSchema"}

\* the arguments of get_mapping: none, the empty string, or a profile name
MappingKeyOpts == {None, Some("")} \cup {Some(n) : n \in LookupSchemas}

\* module and class names looked up directly
LookupPairs ==
    {<<"builtins", "ValueError">>, <<"builtins", "NoSuchError">>,
     <<"unknown_module", "UnknownError">>,
     <<"pydantic_core._pydantic_core", "ValidationError">>}

\* class Child(ValueError), defined in the module app
mro_Child == Derived("app", "Child", mro_ValueError)

mro_FileNotFoundError ==
    Derived("builtins", "FileNotFoundError",
        Derived("builtins", "OSError", mro_Exception))

\* pydantic's ValidationError, a ValueError
mro_ValidationError ==
    Derived("pydantic_core._pydantic_core", "ValidationError", mro_ValueError)

\* the classes of the exceptions handed to the mapper
MapperExcClasses ==
    {mro_Child, mro_FileNotFoundError, mro_ValidationError, mro_AppError,
     mro_NamedLikeRoot, mro_KeyboardInterrupt}

MapperCall(op, schema, module, name, mro, cached, out, looked) ==
    [op |-> op, schema |-> schema, module |-> module, name |-> name, mro |-> mro,
     cached |-> cached, out |-> out, looked |-> looked]

CacheRoom ==
    Cardinality(DOMAIN mapping_cache) + Cardinality(DOMAIN type_cache) < MaxCached

Call_validate_schema ==
    \E schema_name \in LookupSchemas :
        /\ last' = MapperCall("validate_schema", Some(schema_name), "", "", <<>>,
                              FALSE, validate_schema(schema_name), <<>>)
        /\ UNCHANGED <<mapping_cache, type_cache>>

Call_get_mapping ==
    \E key \in MappingKeyOpts :
        LET r == get_mapping(mapping_cache, key) IN
        /\ CacheRoom
        /\ last' = MapperCall("get_mapping", key, "", "", <<>>,
                              key \in DOMAIN mapping_cache, r.out, <<>>)
        /\ mapping_cache' = r.mc
        /\ UNCHANGED type_cache

Call_get_error_type ==
    \E schema_name \in LookupSchemas : \E p \in LookupPairs :
        LET r == get_error_type(mapping_cache, type_cache, schema_name, p[1], p[2]) IN
        /\ CacheRoom
        /\ last' = MapperCall("get_error_type", Some(schema_name), p[1], p[2], <<>>,
                              <<schema_name, p[1], p[2]>> \in DOMAIN type_cache,
                              r.out, <<>>)
        /\ mapping_cache' = r.mc
        /\ type_cache' = r.tc

Call_get_error_type_from_exception ==
    \E schema_name \in LookupSchemas : \E exc_mro \in MapperExcClasses :
        LET r == get_error_type_from_exception(
                     mapping_cache, type_cache, schema_name, exc_mro) IN
        /\ CacheRoom
        /\ last' = MapperCall("get_error_type_from_exception", Some(schema_name),
                              "", "", exc_mro, FALSE, r.out, r.looked)
        /\ mapping_cache' = r.mc
        /\ type_cache' = r.tc

\* cached: whether either cache held an entry when the call was made
Call_clear_caches ==
    LET r == clear_caches(mapping_cache, type_cache) IN
    /\ last' = MapperCall("clear_caches", None, "", "", <<>>,
                          DOMAIN mapping_cache # {} \/ DOMAIN type_cache # {},
                          r.out, <<>>)
    /\ mapping_cache' = r.mc
    /\ type_cache' = r.tc

\* the caller tries to register the base table under a name
Call_register_schema ==
    \E name \in LookupSchemas :
        LET r == register_schema(mapping_cache, type_cache, name, "ErrorSchema") IN
        /\ last' = MapperCall("register_schema", Some(name), "", "", <<>>, FALSE,
                              r.out, <<>>)
        /\ mapping_cache' = r.mc
        /\ type_cache' = r.tc

MapperNext ==
    \/ Call_register_schema
    \/ Call_validate_schema
    \/ Call_get_mapping
    \/ Call_get_error_type
    \/ Call_get_error_type_from_exception
    \/ Call_clear_caches

\* a caller of the mapper alone
MapperSpec == Init /\ [][MapperNext]_vars

(***************************************************************************)
(* Threads that use the mapper at the same time.  The mapper takes no      *)
(* lock.  A call of an lru_cache wrapper is two steps: the lookup of the   *)
(* key, and on a miss the call of the wrapped method followed by the store *)
(* of its result; another thread may run between the two.  In ThreadsSpec  *)
(* last holds the position and the call of every thread.                   *)
(***************************************************************************)
MaxThreads == 2

Threads == 1..MaxThreads

ThreadIdle == [pc |-> "idle"]

ThreadCall(pc, op, schema, module, name, out) ==
    [pc |-> pc, op |-> op, schema |-> schema, module |-> module, name |-> name,
     out |-> out]

\* the profile names the threads use: a registered one and a new one
ThreadSchemas == {"ErrorSchema", "NoSuchSchema"}

ThreadsInit ==
    /\ last = [op |-> "threads", of |-> [t \in Threads |-> ThreadIdle]]
    /\ mapping_cache = EmptyCache
    /\ type_cache = EmptyCache

\* thread t becomes c
ThreadBecomes(t, c) == last' = [last EXCEPT !.of[t] = c]

\* a thread starts a call
T_Begin(t) ==
    /\ last.of[t].pc = "idle"
    /\ \E op \in {"register_schema", "get_mapping", "get_error_type"} :
       \E schema_name \in ThreadSchemas :
           ThreadBecomes(t, ThreadCall(IF op = "register_schema" THEN "call" ELSE "lookup",
                                       op, Some(schema_name), "builtins", "ValueError",
                                       Returned(None)))
    /\ UNCHANGED <<mapping_cache, type_cache>>

\* the attempt to register
T_register_schema(t) ==
    LET c == last.of[t]
        r == register_schema(mapping_cache, type_cache, Val(c.schema), "ErrorSchema")
    IN  /\ c.pc = "call"
        /\ ThreadBecomes(t, [c EXCEPT !.pc = "done", !.out = r.out])
        /\ mapping_cache' = r.mc
        /\ type_cache' = r.tc

\* the wrapper looks its key up: a hit returns the cached value
T_Lookup(t) ==
    LET c == last.of[t]
        key == <<Val(c.schema), c.module, c.name>>
        hit == IF c.op = "get_mapping" THEN c.schema \in DOMAIN mapping_cache
               ELSE key \in DOMAIN type_cache
        value == IF c.op = "get_mapping" THEN mapping_cache[c.schema]
                 ELSE type_cache[key]
    IN  /\ c.pc = "lookup"
        /\ ThreadBecomes(t, IF hit THEN [c EXCEPT !.pc = "done", !.out = Returned(value)]
                            ELSE [c EXCEPT !.pc = "compute"])
        /\ UNCHANGED <<mapping_cache, type_cache>>

\* after a miss: the wrapped method runs and its result is stored
T_Compute(t) ==
    LET c == last.of[t]
        r == IF c.op = "get_mapping"
             THEN LET g == get_mapping(mapping_cache, c.schema)
                  IN  MapperResult(g.out, g.mc, type_cache)
             ELSE get_error_type(mapping_cache, type_cache, Val(c.schema),
                                 c.module, c.name)
    IN  /\ c.pc = "compute"
        /\ ThreadBecomes(t, [c EXCEPT !.pc = "done", !.out = r.out])
        /\ mapping_cache' = r.mc
        /\ type_cache' = r.tc

\* the thread drops the outcome and goes on
T_Continue(t) ==
    /\ last.of[t].pc = "done"
    /\ ThreadBecomes(t, ThreadIdle)
    /\ UNCHANGED <<mapping_cache, type_cache>>

ThreadsNext ==
    \E t \in Threads :
        \/ T_Begin(t)
        \/ T_register_schema(t)
        \/ T_Lookup(t)
        \/ T_Compute(t)
        \/ T_Continue(t)

ThreadsSpec == ThreadsInit /\ [][ThreadsNext]_vars

(***************************************************************************)
(* Threads that only read: get_mapping, get_error_type,                    *)
(* get_error_type_from_exception and clear_caches at the same time.  The   *)
(* walk of get_error_type_from_exception makes one cached call per class   *)
(* of the mro; other threads run between two of its calls.                 *)
(***************************************************************************)
ReaderCall(pc, op, schema, module, name, mro, i, out) ==
    [pc |-> pc, op |-> op, schema |-> schema, module |-> module, name |-> name,
     mro |-> mro, i |-> i, out |-> out]

ReaderSchemas == {"ErrorSchema", "FastAPIErrorSchema"}

\* the classes the readers look up directly, and those they walk
ReaderPairs == {<<"pydantic_core._pydantic_core", "ValidationError">>}

ReaderExcClasses == {mro_ValidationError, mro_Child}

\* a thread starts a cached lookup
R_Begin(t) ==
    /\ last.of[t].pc = "idle"
    /\ \E op \in {"get_mapping", "get_error_type"} :
       \E schema_name \in ReaderSchemas : \E pair \in ReaderPairs :
           ThreadBecomes(t, ReaderCall("lookup", op, Some(schema_name), pair[1], pair[2],
                                       <<>>, 0, Returned(None)))
    /\ UNCHANGED <<mapping_cache, type_cache>>

\* a thread starts get_error_type_from_exception: isinstance holds for the
\* classes walked, the walk begins at the head of the mro
R_Begin_from_exception(t) ==
    /\ last.of[t].pc = "idle"
    /\ \E schema_name \in ReaderSchemas : \E mro \in ReaderExcClasses :
           ThreadBecomes(t, ReaderCall("walk", "get_error_type_from_exception",
                                       Some(schema_name), mro[1].module, mro[1].name,
                                       mro, 1, Returned(_default_error_type)))
    /\ UNCHANGED <<mapping_cache, type_cache>>

\* one turn of the loop over the mro: the break at BaseException, or a cached
\* get_error_type call and the test of its result
R_Walk(t) ==
    LET c == last.of[t]
        at == c.mro[c.i]
        r == get_error_type(mapping_cache, type_cache, Val(c.schema), at.module, at.name)
    IN  /\ c.pc = "walk"
        /\ IF c.i > Len(c.mro) \/ at.name = "BaseException"
           THEN /\ ThreadBecomes(t, [c EXCEPT !.pc = "done"])
                /\ UNCHANGED <<mapping_cache, type_cache>>
           ELSE /\ ThreadBecomes(t,
                       IF r.out.kind = "raise"
                       THEN [c EXCEPT !.pc = "done", !.out = r.out]
                       ELSE IF ~IsNone(r.out.value)
                       THEN [c EXCEPT !.pc = "done", !.out = Returned(Val(r.out.value))]
                       ELSE [c EXCEPT !.i = @ + 1])
                /\ mapping_cache' = r.mc
                /\ type_cache' = r.tc

\* a thread clears both caches
R_clear_caches(t) ==
    LET r == clear_caches(mapping_cache, type_cache) IN
    /\ last.of[t].pc = "idle"
    /\ ThreadBecomes(t, ReaderCall("done", "clear_caches", None, "", "", <<>>, 0, r.out))
    /\ mapping_cache' = r.mc
    /\ type_cache' = r.tc

ReadersNext ==
    \E t \in Threads :
        \/ R_Begin(t)
        \/ R_Begin_from_exception(t)
        \/ T_Lookup(t)
        \/ T_Compute(t)
        \/ R_Walk(t)
        \/ R_clear_caches(t)
        \/ T_Continue(t)

ReadersSpec == ThreadsInit /\ [][ReadersNext]_vars

(***************************************************************************)
(* base/err_group.py and fastapi/fastapi_group.py: ErrGroup and            *)
(* FastAPIErrGroup.                                                        *)
(*                                                                         *)
(* Schema instances are objects: objs is the heap, a sequence of instances *)
(* in the order of their creation, and a reference is the position of an   *)
(* object in it.  A group is [cls, items], items being its _error_schemas  *)
(* list: a sequence of values, each a reference or something else.  The    *)
(* operations take the heap and the group and return the outcome with the  *)
(* heap and the items as the call leaves them.                             *)
(***************************************************************************)
Ref(id) == [kind |-> "ref", id |-> id]

\* a value that is no schema: a str
NotASchema == [kind |-> "str"]

\* an argument that is a group, or a list
GroupArg(cls, items) == [kind |-> "group", cls |-> cls, items |-> items]
ListArg(items) == [kind |-> "list", items |-> items]

\* isinstance(v, cls) for cls one of the two schema classes
IsSchemaInstance(objs, v, cls) ==
    v.kind = "ref" /\ IsInstance(SchemaArg(objs[v.id]), cls)

\* the class a group requires of its elements
ElementClass(group_cls) ==
    IF group_cls = "FastAPIErrGroup" THEN "FastAPIErrorSchema" ELSE "ErrorSchema"

\* isinstance(arg, group_cls): FastAPIErrGroup is a subclass of ErrGroup
IsGroupInstance(arg, group_cls) ==
    /\ arg.kind = "group"
    /\ group_cls = "ErrGroup" \/ arg.cls = "FastAPIErrGroup"

GroupResult(out, objs, items) == [out |-> out, objs |-> objs, items |-> items]

\* the references of items, each once, in the order of first occurrence
RECURSIVE DistinctIds(_, _, _)
DistinctIds(items, i, seen) ==
    IF i > Len(items) THEN seen
    ELSE IF items[i].kind = "ref" /\ \A j \in 1..Len(seen) : seen[j] # items[i].id
    THEN DistinctIds(items, i + 1, Append(seen, items[i].id))
    ELSE DistinctIds(items, i + 1, seen)

\* deepcopy(items): every object referred to is copied once, to the end of the
\* heap, and the copy of the list refers to the copies
deepcopy(objs, items) ==
    LET ids == DistinctIds(items, 1, <<>>)
        pos(id) == CHOOSE j \in 1..Len(ids) : ids[j] = id
    IN  [objs |-> objs \o [j \in 1..Len(ids) |-> objs[ids[j]]],
         items |-> [i \in 1..Len(items) |->
                       IF items[i].kind = "ref"
                       THEN Ref(Len(objs) + pos(items[i].id))
                       ELSE items[i]]]

\* a to_list whose list refers to the members themselves
to_list_shared(objs, items) == [objs |-> objs, items |-> items]

\* ErrGroup.to_list / FastAPIErrGroup.to_list
to_list(objs, items) == deepcopy(objs, items)

\* a group whose append keeps whatever it is given
append_unchecked(group_cls, objs, items, error_schema) ==
    GroupResult(Returned(None), objs, Append(items, error_schema))

\* ErrGroup.append / FastAPIErrGroup.append
append(group_cls, objs, items, error_schema) ==
    IF ~IsSchemaInstance(objs, error_schema, ElementClass(group_cls))
    THEN GroupResult(Raised("ValueError", "must be an instance"), objs, items)
    ELSE GroupResult(Returned(None), objs, Append(items, error_schema))

\* an extend that adds the elements one by one until one is refused
RECURSIVE extend_one_by_one(_, _, _, _)
extend_one_by_one(group_cls, objs, items, error_schemas) ==
    IF IsGroupInstance(error_schemas, group_cls)
    THEN LET c == to_list(objs, error_schemas.items)
         IN  GroupResult(Returned(None), c.objs, items \o c.items)
    ELSE IF error_schemas.kind = "list"
    THEN IF Len(error_schemas.items) = 0
         THEN GroupResult(Returned(None), objs, items)
         ELSE LET r == append(group_cls, objs, items, Head(error_schemas.items)) IN
              IF r.out.kind = "raise"
              THEN GroupResult(Raised("ValueError", "All elements must be instances"),
                               objs, items)
              ELSE extend_one_by_one(group_cls, objs, r.items,
                                     ListArg(Tail(error_schemas.items)))
    ELSE GroupResult(Raised("ValueError", "must be a list or a group"), objs, items)

\* ErrGroup.extend / FastAPIErrGroup.extend
extend(group_cls, objs, items, error_schemas) ==
    IF IsGroupInstance(error_schemas, group_cls)
    THEN LET c == to_list(objs, error_schemas.items)
         IN  GroupResult(Returned(None), c.objs, items \o c.items)
    ELSE IF error_schemas.kind = "list"
    THEN IF \E i \in 1..Len(error_schemas.items) :
                ~IsSchemaInstance(objs, error_schemas.items[i], ElementClass(group_cls))
         THEN GroupResult(Raised("ValueError", "All elements must be instances"),
                          objs, items)
         ELSE GroupResult(Returned(None), objs, items \o error_schemas.items)
    ELSE GroupResult(Raised("ValueError", "must be a list or a group"), objs, items)

\* ErrGroup.__setitem__ / FastAPIErrGroup.__setitem__; index counts from 0,
\* a negative index from the end
setitem(group_cls, objs, items, index, value) ==
    LET at == IF index < 0 THEN Len(items) + index + 1 ELSE index + 1 IN
    IF ~IsSchemaInstance(objs, value, ElementClass(group_cls))
    THEN GroupResult(Raised("ValueError", "must be an instance"), objs, items)
    ELSE IF at \notin 1..Len(items)
    THEN GroupResult(Raised("IndexError", "list assignment index out of range"),
                     objs, items)
    ELSE GroupResult(Returned(None), objs, [items EXCEPT ![at] = value])

\* ErrGroup.clear
clear(group_cls, objs, items) == GroupResult(Returned(None), objs, <<>>)

\* a copy that shares the members with the original
copy_shallow(group_cls, objs, items) ==
    GroupResult(Returned(GroupArg(group_cls, items)), objs, items)

\* ErrGroup.copy: the outcome is the new group
copy(group_cls, objs, items) ==
    LET c == deepcopy(objs, items)
    IN  GroupResult(Returned(GroupArg(group_cls, c.items)), c.objs, items)

\* a membership test that compares the tag as given
contains_type_exact(objs, items, error_type) ==
    \E i \in 1..Len(items) : objs[items[i].id].type = error_type

\* ErrGroup.contains_type
contains_type(objs, items, error_type) ==
    \E i \in 1..Len(items) : objs[items[i].id].type = StrLower(error_type)

\* a view that keeps ui_msg
to_dict_with_ui_msg(e, target) ==
    IF e.cls = "ErrorSchema" THEN [type |-> e.type, msg |-> e.msg]
    ELSE IF target = "frontend"
    THEN [msg |-> StrOr(e.ui_msg, e.msg), input |-> e.input]
    ELSE [type |-> e.type, msg |-> e.msg, ui_msg |-> e.ui_msg, loc |-> e.loc,
          input |-> e.input]

\* ErrorSchema.to_dict() / FastAPIErrorSchema.to_dict(target)
to_dict(e, target) ==
    IF e.cls = "ErrorSchema" THEN [type |-> e.type, msg |-> e.msg]
    ELSE IF target = "frontend"
    THEN [msg |-> StrOr(e.ui_msg, e.msg), input |-> e.input]
    ELSE [type |-> e.type, msg |-> e.msg, loc |-> e.loc, input |-> e.input]

\* ErrGroup.to_dicts() / FastAPIErrGroup.to_dicts(target)
to_dicts(objs, items, target) ==
    [i \in 1..Len(items) |-> to_dict(objs[items[i].id], target)]

(***************************************************************************)
(* The caller of the groups.  It holds two groups, g and h, and the schema *)
(* instances it has created or received; it calls the groups' methods with *)
(* them and changes a field of an instance in place.  In GroupSpec last    *)
(* holds these objects next to the call made last; the caller makes a      *)
(* call, looks at its outcome, and goes on.                                *)
(***************************************************************************)
\* the heap holds at most this many schema instances
MaxObjs == 2

\* a group or a list grows to at most this length
MaxLen == 2

GroupNames == {"g", "h"}

OtherGroup(r) == IF r = "g" THEN "h" ELSE "g"

\* the instances the caller creates: ErrorSchema(type=..., msg=...) and
\* FastAPIErrorSchema(type=..., msg=..., ui_msg=...)
NewSchemaInputs ==
    {[cls |-> "ErrorSchema",
      given |-> [NoKwargs EXCEPT !.type = Some(s_value_error),
                                 !.msg = Some(<<"B", "a", "d">>)]],
     [cls |-> "FastAPIErrorSchema",
      given |-> [NoKwargs EXCEPT !.type = Some(<<"F", "i", "l", "e", "_", "E", "r", "r">>),
                                 !.msg = Some(<<"G", "o", "n", "e">>),
                                 !.ui_msg = Some(<<"R", "e", "t", "r", "y">>)]],
     [cls |-> "FastAPIErrorSchema",
      given |-> [NoKwargs EXCEPT !.type = Some(s_value_error),
                                 !.msg = Some(<<"L", "o", "s", "t">>)]],
     [cls |-> "FastAPIErrorSchema",
      given |-> [NoKwargs EXCEPT !.msg = Some(<<"V", "o", "i", "d">>),
                                 !.ui_msg = Some(<<>>)]]}

\* the tags asked of contains_type
TagOpts ==
    {<<"V", "A", "L", "U", "E", "_", "e", "r", "r", "o", "r">>,
     <<"F", "i", "l", "e", "_", "E", "r", "r">>, s_docker_error}

TargetOpts == {"backend", "frontend"}

GroupWorld(op, recv, arg, out, objs, g, h) ==
    [op |-> op, recv |-> recv, arg |-> arg, out |-> out, objs |-> objs,
     g |-> g, h |-> h]

\* g = ErrGroup() and h = FastAPIErrGroup(), or the other way round
GroupInit ==
    /\ \E gc \in {"ErrGroup", "FastAPIErrGroup"} :
           last = GroupWorld("idle", "g", NotASchema, Returned(None), <<>>,
                             [cls |-> gc, items |-> <<>>],
                             [cls |-> IF gc = "ErrGroup" THEN "FastAPIErrGroup"
                                      ELSE "ErrGroup",
                              items |-> <<>>])
    /\ mapping_cache = EmptyCache
    /\ type_cache = EmptyCache

\* the values the caller passes as an element
ElementArgs(r) ==
    {Ref(id) : id \in 1..Len(last.objs)}
    \cup {NotASchema, GroupArg(last[OtherGroup(r)].cls, last[OtherGroup(r)].items)}

\* the lists the caller passes to extend
ListArgs ==
    LET elements == {Ref(id) : id \in 1..Len(last.objs)} \cup {NotASchema}
    IN  {ListArg(l) : l \in UNION {[1..n -> elements] : n \in 0..MaxLen}}

\* the values the caller passes to extend
ExtendArgs ==
    ListArgs \cup {NotASchema}
    \cup {GroupArg(last[n].cls, last[n].items) : n \in GroupNames}

\* the caller's call op(arg), on group r where it is a group's method, ended
\* with outcome out and left the heap objs and the group r with items
GroupCalled(op, r, arg, out, objs, items) ==
    /\ last.op = "idle"
    /\ Len(objs) <= MaxObjs
    /\ Len(items) <= MaxLen
    /\ last' = [last EXCEPT !.op = op, !.recv = r, !.arg = arg, !.out = out,
                            !.objs = objs, ![r].items = items]
    /\ UNCHANGED <<mapping_cache, type_cache>>

G_new_schema ==
    \E i \in NewSchemaInputs :
        GroupCalled("new_schema", "g", NotASchema, Returned(Ref(Len(last.objs) + 1)),
                    Append(last.objs, Construct(i.cls, i.given).value), last.g.items)

\* the caller assigns to a field of an instance: e.msg = "changed"
G_set_msg ==
    \E id \in 1..Len(last.objs) :
        GroupCalled("set_msg", "g", Ref(id), Returned(None),
                    [last.objs EXCEPT ![id].msg = <<"c", "h", "a", "n", "g", "e", "d">>],
                    last.g.items)

G_append ==
    \E r \in GroupNames : \E v \in ElementArgs(r) :
        LET res == append(last[r].cls, last.objs, last[r].items, v)
        IN  GroupCalled("append", r, v, res.out, res.objs, res.items)

G_extend ==
    \E r \in GroupNames : \E a \in ExtendArgs :
        LET res == extend(last[r].cls, last.objs, last[r].items, a)
        IN  GroupCalled("extend", r, a, res.out, res.objs, res.items)

G_setitem ==
    \E r \in GroupNames : \E index \in {-1, 1} : \E v \in ElementArgs(r) :
        LET res == setitem(last[r].cls, last.objs, last[r].items, index, v)
        IN  GroupCalled("setitem", r, [index |-> index, value |-> v],
                        res.out, res.objs, res.items)

G_clear ==
    \E r \in GroupNames :
        LET res == clear(last[r].cls, last.objs, last[r].items)
        IN  GroupCalled("clear", r, NotASchema, res.out, res.objs, res.items)

\* the caller binds the other name to the copy
G_copy ==
    \E r \in GroupNames :
        LET res == copy(last[r].cls, last.objs, last[r].items) IN
        /\ last.op = "idle"
        /\ Len(res.objs) <= MaxObjs
        /\ last' = [last EXCEPT !.op = "copy", !.recv = r, !.arg = NotASchema,
                                !.out = Returned(None), !.objs = res.objs,
                                ![OtherGroup(r)] =
                                    [cls |-> res.out.value.cls,
                                     items |-> res.out.value.items]]
        /\ UNCHANGED <<mapping_cache, type_cache>>

G_to_list ==
    \E r \in GroupNames :
        LET res == to_list(last.objs, last[r].items)
        IN  GroupCalled("to_list", r, NotASchema, Returned(ListArg(res.items)),
                        res.objs, last[r].items)

G_contains_type ==
    \E r \in GroupNames : \E error_type \in TagOpts :
        GroupCalled("contains_type", r, error_type,
                    Returned(contains_type(last.objs, last[r].items, error_type)),
                    last.objs, last[r].items)

\* to_dicts() of an ErrGroup, to_dicts(target) of a FastAPIErrGroup
G_to_dicts ==
    \E r \in GroupNames : \E target \in TargetOpts :
        /\ last[r].cls = "ErrGroup" => target = "backend"
        /\ GroupCalled("to_dicts", r, target,
                       Returned(to_dicts(last.objs, last[r].items, target)),
                       last.objs, last[r].items)

\* the caller has looked at the outcome and goes on
G_Continue ==
    /\ last.op # "idle"
    /\ last' = [last EXCEPT !.op = "idle", !.recv = "g", !.arg = NotASchema,
                            !.out = Returned(None)]
    /\ UNCHANGED <<mapping_cache, type_cache>>

GroupNext ==
    \/ G_new_schema
    \/ G_set_msg
    \/ G_append
    \/ G_extend
    \/ G_setitem
    \/ G_clear
    \/ G_copy
    \/ G_to_list
    \/ G_contains_type
    \/ G_to_dicts
    \/ G_Continue

GroupSpec == GroupInit /\ [][GroupNext]_vars

(***************************************************************************)
(* fastapi/fastapi_group.py: the helpers of FastAPIErrGroup that change    *)
(* its members.  Here the input of an instance is the identity of its      *)
(* mapping object: dicts maps the identities in use to the mappings'       *)
(* values, so that two instances, or an instance and the caller, can hold  *)
(* the same mapping.                                                       *)
(***************************************************************************)
\* the loop of append_loc / extend_loc from element i: err.loc.extend(locs)
RECURSIVE extend_loc_from(_, _, _, _)
extend_loc_from(objs, items, i, locs) ==
    IF i > Len(items) THEN objs
    ELSE extend_loc_from([objs EXCEPT ![items[i].id].loc = @ \o locs], items, i + 1, locs)

\* FastAPIErrGroup.append_loc(loc)
append_loc(objs, items, loc) ==
    GroupResult(Returned(None), extend_loc_from(objs, items, 1, <<loc>>), items)

\* FastAPIErrGroup.extend_loc(locs)
extend_loc(objs, items, locs) ==
    GroupResult(Returned(None), extend_loc_from(objs, items, 1, locs), items)

\* the identities a mapping object can have
DictIds == 1..(MaxObjs + 2)

\* the mapping objects in use: those of the instances and the caller's
LiveDicts(objs, d) == {objs[i].input : i \in 1..Len(objs)} \cup ({d} \ {0})

\* the identity of a newly made mapping object
FreshDict(objs, d) ==
    CHOOSE id \in DictIds \ LiveDicts(objs, d) :
        \A other \in DictIds \ LiveDicts(objs, d) : id <= other

\* the mapping objects that are still referred to
Collected(objs, dicts, d) == [id \in LiveDicts(objs, d) |-> dicts[id]]

\* the loop of update_input from element i:
\* err.input = input_dict if overwrite else {**err.input, **input_dict}
RECURSIVE update_input_from(_, _, _, _, _, _)
update_input_from(objs, dicts, items, i, d, overwrite) ==
    IF i > Len(items) THEN [objs |-> objs, dicts |-> dicts]
    ELSE LET id == items[i].id IN
         IF overwrite
         THEN update_input_from([objs EXCEPT ![id].input = d], dicts, items, i + 1,
                                d, overwrite)
         ELSE LET fresh == FreshDict(objs, d)
                  merged == dicts[d] @@ dicts[objs[id].input]
              IN  update_input_from([objs EXCEPT ![id].input = fresh],
                                    (fresh :> merged) @@ dicts, items, i + 1,
                                    d, overwrite)

\* FastAPIErrGroup.update_input(input_dict, overwrite=False); d is the
\* identity of the caller's input_dict
update_input(objs, dicts, items, d, overwrite) ==
    LET r == update_input_from(objs, dicts, items, 1, d, overwrite)
    IN  [out |-> Returned(None), objs |-> r.objs,
         dicts |-> Collected(r.objs, r.dicts, d)]

(***************************************************************************)
(* The caller of the helpers: one FastAPIErrGroup g, the instances built   *)
(* so far, and the mapping d the caller passed last and still holds.       *)
(***************************************************************************)
MaxLoc == 3

LocGroup == "FastAPIErrGroup"

l_new_loc == <<"n", "e", "w", "_", "l", "o", "c">>

LocsOpts == {<<<<"l", "o", "c", "3">>, <<"l", "o", "c", "4">>>>}

\* the instances the caller builds, and the input each is given
LocSchemaInputs ==
    {[given |-> [NoKwargs EXCEPT !.type = Some(s_value_error),
                                 !.msg = Some(<<"L", "o", "s", "t">>)],
      input |-> ("key1" :> "v1")],
     [given |-> [NoKwargs EXCEPT !.type = Some(s_file_error),
                                 !.msg = Some(<<"G", "o", "n", "e">>)],
      input |-> <<>>]}

\* the mappings the caller passes to update_input
InputDictOpts == {("new_key" :> "new_value"), ("key1" :> "v2")}

LocInit ==
    /\ last = [op |-> "idle", arg |-> NotASchema, out |-> Returned(None),
               objs |-> <<>>, dicts |-> <<>>, g |-> <<>>, d |-> 0]
    /\ mapping_cache = EmptyCache
    /\ type_cache = EmptyCache

\* the call op(arg) ended with outcome out and left the instances objs, the
\* mappings dicts, the group's elements items and the caller's mapping d
LocCalled(op, arg, out, objs, dicts, items, d) ==
    /\ last.op = "idle"
    /\ Len(items) <= MaxLen
    /\ \A i \in 1..Len(objs) : Len(objs[i].loc) <= MaxLoc
    /\ last' = [op |-> op, arg |-> arg, out |-> out, objs |-> objs, dicts |-> dicts,
                g |-> items, d |-> d]
    /\ UNCHANGED <<mapping_cache, type_cache>>

L_new_schema ==
    \E i \in LocSchemaInputs :
        LET fresh == FreshDict(last.objs, last.d)
            inst == [Construct("FastAPIErrorSchema", i.given).value
                         EXCEPT !.input = fresh]
        IN  /\ Len(last.objs) < MaxObjs
            /\ LocCalled("new_schema", NotASchema, Returned(Ref(Len(last.objs) + 1)),
                         Append(last.objs, inst), (fresh :> i.input) @@ last.dicts,
                         last.g, last.d)

L_append ==
    \E v \in {Ref(id) : id \in 1..Len(last.objs)} \cup {NotASchema} :
        LET res == append(LocGroup, last.objs, last.g, v)
        IN  LocCalled("append", v, res.out, res.objs, last.dicts, res.items, last.d)

L_extend ==
    \E n \in 0..MaxLen : \E l \in [1..n -> {Ref(id) : id \in 1..Len(last.objs)}] :
        LET res == extend(LocGroup, last.objs, last.g, ListArg(l))
        IN  LocCalled("extend", ListArg(l), res.out, res.objs, last.dicts, res.items,
                      last.d)

L_append_loc ==
    LET res == append_loc(last.objs, last.g, l_new_loc)
    IN  LocCalled("append_loc", l_new_loc, res.out, res.objs, last.dicts, res.items,
                  last.d)

L_extend_loc ==
    \E locs \in LocsOpts :
        LET res == extend_loc(last.objs, last.g, locs)
        IN  LocCalled("extend_loc", locs, res.out, res.objs, last.dicts, res.items,
                      last.d)

\* the caller makes a mapping and passes it on; the mapping it held before
\* is dropped
L_update_input ==
    \E value \in InputDictOpts : \E overwrite \in BOOLEAN :
        LET d == FreshDict(last.objs, 0)
            res == update_input(last.objs, (d :> value) @@ last.dicts, last.g, d,
                                overwrite)
        IN  LocCalled("update_input", [input_dict |-> value, overwrite |-> overwrite],
                      res.out, res.objs, res.dicts, last.g, d)

\* the caller changes the input of a member in place: g[i].input["seen"] = "yes"
L_change_input ==
    \E i \in 1..Len(last.g) :
        LET target == last.objs[last.g[i].id].input
        IN  LocCalled("change_input", i, Returned(None), last.objs,
                      [last.dicts EXCEPT ![target] = ("seen" :> "yes") @@ @],
                      last.g, last.d)

\* the caller changes in place the mapping it passed: d["seen"] = "yes"
L_change_d ==
    /\ last.d # 0
    /\ LocCalled("change_d", NotASchema, Returned(None), last.objs,
                 [last.dicts EXCEPT ![last.d] = ("seen" :> "yes") @@ @],
                 last.g, last.d)

L_Continue ==
    /\ last.op # "idle"
    /\ last' = [last EXCEPT !.op = "idle", !.arg = NotASchema, !.out = Returned(None)]
    /\ UNCHANGED <<mapping_cache, type_cache>>

LocNext ==
    \/ L_new_schema
    \/ L_append
    \/ L_extend
    \/ L_append_loc
    \/ L_extend_loc
    \/ L_update_input
    \/ L_change_input
    \/ L_change_d
    \/ L_Continue

LocSpec == LocInit /\ [][LocNext]_vars

(***************************************************************************)
(* base/err_base.py and fastapi/fastapi_base.py: the sub-builders, the     *)
(* classes nested in a schema class (File, Map, DB, ...).                  *)
(***************************************************************************)
\* a nested class: __qualname__.split('.') and the display_name it declares
SubBuilder(owner, name, display_name) ==
    [qualname |-> <<owner, name>>, display_name |-> display_name]

n_File == <<"F", "i", "l", "e">>
n_Map == <<"M", "a", "p">>
n_DB == <<"D", "B">>
n_Value == <<"V", "a", "l", "u", "e">>
n_Parse == <<"P", "a", "r", "s", "e">>
n_Runtime == <<"R", "u", "n", "t", "i", "m", "e">>
n_Unknown == <<"U", "n", "k", "n", "o", "w", "n">>
n_Validation == <<"V", "a", "l", "i", "d", "a", "t", "i", "o", "n">>
n_Docker == <<"D", "o", "c", "k", "e", "r">>

\* the display_name a nested class declares or inherits
DisplayNameOf(name) ==
    IF name = n_Map THEN Some(<<"D", "i", "c", "t">>)
    ELSE IF name = n_DB THEN Some(<<"D", "a", "t", "a", "b", "a", "s", "e">>)
    ELSE None

\* the classes nested in ErrorSchema, and those FastAPIErrorSchema adds
BaseSubNames == {n_File, n_Map, n_DB, n_Value, n_Parse, n_Runtime, n_Unknown}

SubNamesOf(owner) ==
    IF owner = "FastAPIErrorSchema" THEN BaseSubNames \cup {n_Validation, n_Docker}
    ELSE BaseSubNames

\* a truthy optional string: given and not empty
Truthy(o) == ~IsNone(o) /\ Len(Val(o)) > 0

\* Base._get_name: cls.display_name or cls.__name__
_get_name(sb) == StrOr(sb.display_name, sb.qualname[2])

\* a resolution that names the class the helpers are written in
get_parent_class_static(sb) == "ErrorSchema"

\* get_parent_class(cls): the module attribute named by the first part of
\* cls.__qualname__
get_parent_class(sb) == sb.qualname[1]

\* f"{cls._get_name().lower()}_error"
ErrorMethod(sb) == StrLower(_get_name(sb)) \o <<"_", "e", "r", "r", "o", "r">>

\* parent_cls.customized_error(type=t, msg=m, **kwargs): a keyword given twice
\* is a TypeError of the call
CustomizedWith(parent_cls, t, m, kwargs, env) ==
    IF Has(kwargs, "type") \/ (~IsNone(m) /\ Has(kwargs, "msg"))
    THEN Raised("TypeError", "got multiple values for keyword argument")
    ELSE customized_error(parent_cls,
                          [kwargs EXCEPT !.type = Some(t),
                                         !.msg = IF IsNone(m) THEN @ ELSE m],
                          env)

\* a general that lets action and reason through together
general_unguarded(sb, action, reason, kwargs, env) ==
    LET name == _get_name(sb)
        kw == IF Truthy(action)
              THEN [kwargs EXCEPT !.msg = Some(name \o <<" ", "e", "r", "r", "o", "r", " ", "o", "c", "c", "u", "r", "r", "e", "d", " ", "w", "h", "i", "l", "e", " ">>
                                               \o Val(action) \o <<".">>)]
              ELSE IF Truthy(reason)
              THEN [kwargs EXCEPT !.msg = Some(name \o <<" ", "e", "r", "r", "o", "r", " ", "o", "c", "c", "u", "r", "r", "e", "d", " ", "s", "i", "n", "c", "e", " ">>
                                               \o Val(reason) \o <<".">>)]
              ELSE kwargs
    IN  CustomizedWith(get_parent_class(sb), ErrorMethod(sb), None, kw, env)

\* Base.general(action=None, reason=None, **kwargs)
general(sb, action, reason, kwargs, env) ==
    IF Truthy(action) /\ Truthy(reason)
    THEN Raised("ValueError", "Only one of 'action' or 'reason' should be provided.")
    ELSE LET name == _get_name(sb)
             kw == IF Truthy(action)
                   THEN [kwargs EXCEPT !.msg = Some(name \o <<" ", "e", "r", "r", "o", "r", " ", "o", "c", "c", "u", "r", "r", "e", "d", " ", "w", "h", "i", "l", "e", " ">>
                                                    \o Val(action) \o <<".">>)]
                   ELSE IF Truthy(reason)
                   THEN [kwargs EXCEPT !.msg = Some(name \o <<" ", "e", "r", "r", "o", "r", " ", "o", "c", "c", "u", "r", "r", "e", "d", " ", "s", "i", "n", "c", "e", " ">>
                                                    \o Val(reason) \o <<".">>)]
                   ELSE kwargs
         IN  CustomizedWith(get_parent_class(sb), ErrorMethod(sb), None, kw, env)

\* Path(path).suffix is not empty: the last component has a dot that is
\* neither its first nor its last character
HasSuffix(path) ==
    LET comps == PathOf(path).comps
        name == IF Len(comps) = 0 THEN <<>> ELSE comps[Len(comps)]
    IN  \E j \in 2..(Len(name) - 1) : name[j] = "."

\* a _path_type that takes every path for a file
_path_type_file(path) == <<"f", "i", "l", "e">>

\* File._path_type(path)
_path_type(path) == IF HasSuffix(path) THEN <<"f", "i", "l", "e">> ELSE <<"d", "i", "r", "e", "c", "t", "o", "r", "y">>

Quoted(s) == <<"'">> \o s \o <<"'">>

FileHelpers ==
    {"not_found", "already_exists", "creating", "writing", "reading", "removing",
     "copying", "updating"}

\* the msg= each helper of File passes on
FileMessage(helper, path) ==
    LET path_type == _path_type(path)
        failed(verb) == verb \o path_type \o <<" ">> \o Quoted(path) \o <<" ", "f", "a", "i", "l", "e", "d", ".">>
    IN  CASE helper = "not_found" ->
                 Capitalize(path_type) \o <<" ">> \o Quoted(path) \o <<" ", "n", "o", "t", " ", "f", "o", "u", "n", "d", ".">>
          [] helper = "already_exists" ->
                 Capitalize(path_type) \o <<" ">> \o Quoted(path) \o <<" ", "a", "l", "r", "e", "a", "d", "y", " ", "e", "x", "i", "s", "t", "s", ".">>
          [] helper = "creating" -> failed(<<"C", "r", "e", "a", "t", "i", "n", "g", " ">>)
          [] helper = "writing" -> failed(<<"W", "r", "i", "t", "i", "n", "g", " ", "t", "o", " ">>)
          [] helper = "reading" -> failed(<<"R", "e", "a", "d", "i", "n", "g", " ", "f", "r", "o", "m", " ">>)
          [] helper = "removing" -> failed(<<"R", "e", "m", "o", "v", "i", "n", "g", " ">>)
          [] helper = "copying" -> failed(<<"C", "o", "p", "y", "i", "n", "g", " ">>)
          [] helper = "updating" -> <<"U", "p", "d", "a", "t", "i", "n", "g", " ", "f", "i", "l", "e", " ">> \o Quoted(path) \o <<" ", "f", "a", "i", "l", "e", "d", ".">>

\* File.not_found, already_exists, creating, writing, reading, removing,
\* copying, updating (path, **kwargs)
File_helper(sb, helper, path, kwargs, env) ==
    CustomizedWith(get_parent_class(sb), ErrorMethod(sb),
                   Some(FileMessage(helper, path)), kwargs, env)

\* "', '".join(keys)
RECURSIVE JoinKeys(_)
JoinKeys(keys) ==
    IF Len(keys) = 0 THEN <<>>
    ELSE IF Len(keys) = 1 THEN keys[1]
    ELSE keys[1] \o <<"'", ",", " ", "'">> \o JoinKeys(Tail(keys))

\* Map.missing_keys(keys, **kwargs)
missing_keys(sb, keys, kwargs, env) ==
    CustomizedWith(get_parent_class(sb), ErrorMethod(sb),
                   Some(<<"K", "e", "y", "s", " ", "(", "'">> \o JoinKeys(keys) \o <<"'", ")", " ", "n", "o", "t", " ", "f", "o", "u", "n", "d", " ", "i", "n", " ", "d", "i", "c", "t", "i", "o", "n", "a", "r", "y", ".">>),
                   kwargs, env)

\* DB.no_results(desc, **kwargs)
no_results(sb, desc, kwargs, env) ==
    CustomizedWith(get_parent_class(sb), ErrorMethod(sb),
                   Some(<<"N", "o", " ", "r", "e", "s", "u", "l", "t", "s", " ", "f", "o", "u", "n", "d", " ", "w", "h", "i", "l", "e", " ">> \o desc \o <<".">>), kwargs, env)

\* DB.foreign_key_violation(**kwargs)
foreign_key_violation(sb, kwargs, env) ==
    CustomizedWith(get_parent_class(sb), ErrorMethod(sb),
                   Some(<<"F", "o", "r", "e", "i", "g", "n", " ", "k", "e", "y", " ", "v", "i", "o", "l", "a", "t", "i", "o", "n", " ", "o", "c", "c", "u", "r", "r", "e", "d", ".">>), kwargs, env)

DockerHelpers == {"waiting", "running", "starting", "stopping", "removing"}

\* the msg= each helper of Docker passes on
DockerMessage(helper, container) ==
    LET container_msg == IF Truthy(container)
                         THEN <<"c", "o", "n", "t", "a", "i", "n", "e", "r", " ">> \o Quoted(Val(container))
                         ELSE <<"a", " ", "c", "o", "n", "t", "a", "i", "n", "e", "r">>
        doing == CASE helper = "running" -> <<"r", "u", "n", "n", "i", "n", "g", " ">>
                   [] helper = "starting" -> <<"s", "t", "a", "r", "t", "i", "n", "g", " ">>
                   [] helper = "stopping" -> <<"s", "t", "o", "p", "p", "i", "n", "g", " ">>
                   [] helper = "removing" -> <<"r", "e", "m", "o", "v", "i", "n", "g", " ">>
    IN  IF helper = "waiting"
        THEN <<"F", "a", "i", "l", "e", "d", " ", "w", "h", "e", "n", " ", "w", "a", "i", "t", "i", "n", "g", " ", "f", "o", "r", " ">> \o container_msg \o <<" ", "t", "o", " ", "f", "i", "n", "i", "s", "h", ".">>
        ELSE <<"F", "a", "i", "l", "e", "d", " ", "w", "h", "e", "n", " ">> \o doing \o container_msg \o <<".">>

\* Docker.waiting, running, starting, stopping, removing (container=None,
\* **kwargs): they name FastAPIErrorSchema itself
Docker_helper(sb, helper, container, kwargs, env) ==
    CustomizedWith("FastAPIErrorSchema", ErrorMethod(sb),
                   Some(DockerMessage(helper, container)), kwargs, env)

(***************************************************************************)
(* The caller of the sub-builders.                                         *)
(***************************************************************************)
SubBuildersOf(owner) ==
    {SubBuilder(owner, n, DisplayNameOf(n)) : n \in SubNamesOf(owner)}

SubBuilders == UNION {SubBuildersOf(owner) : owner \in SchemaClasses}

Named(sbs, n) == {sb \in sbs : sb.qualname[2] = n}

ActionOpts == {None, Some(<<>>), Some(<<"r", "e", "a", "d", "i", "n", "g", " ", "x">>)}

ReasonOpts == {None, Some(<<"t", "i", "m", "e", "o", "u", "t">>)}

PathOpts == {<<"c", "o", "n", "f", "i", "g", ".", "j", "s", "o", "n">>, <<"d", "a", "t", "a", "/">>, <<".", "e", "n", "v">>, <<"/", "s", "r", "v", "/", "v", "1", ".", "2", "/", "l", "o", "g", "s">>}

KeysOpts == {<<>>, <<<<"n", "a", "m", "e">>>>, <<<<"n", "a", "m", "e">>, <<"a", "g", "e">>>>}

ContainerOpts == {None, Some(<<"w", "e", "b">>)}

\* the keywords handed on to a sub-builder of a class
SubKwargs(owner) ==
    {kw \in KwargsFor(owner, TypeOpts, {None, Some(m_plain)}, {None}) :
        kw.exc # Some(e_bare) /\ (Has(kw, "loc") => ~Has(kw, "auto_loc"))}

SubCall(op, sb, helper, arg, kwargs, env, out) ==
    /\ last.op = "none"
    /\ last' = [op |-> op, cls |-> sb.qualname[1], sb |-> sb, helper |-> helper,
                arg |-> arg, kwargs |-> kwargs, env |-> env, out |-> out]
    /\ UNCHANGED <<mapping_cache, type_cache>>

Call_general ==
    \E sb \in SubBuilders : \E action \in ActionOpts : \E reason \in ReasonOpts :
    \E kwargs \in SubKwargs(sb.qualname[1]) : \E env \in EnvsOf(sb.qualname[1], kwargs) :
        SubCall("general", sb, "general", [action |-> action, reason |-> reason],
                kwargs, env, general(sb, action, reason, kwargs, env))

Call_File_helper ==
    \E sb \in Named(SubBuilders, n_File) : \E helper \in FileHelpers :
    \E path \in PathOpts :
    \E kwargs \in SubKwargs(sb.qualname[1]) : \E env \in EnvsOf(sb.qualname[1], kwargs) :
        SubCall("File", sb, helper, path, kwargs, env,
                File_helper(sb, helper, path, kwargs, env))

Call_missing_keys ==
    \E sb \in Named(SubBuilders, n_Map) : \E keys \in KeysOpts :
    \E kwargs \in SubKwargs(sb.qualname[1]) : \E env \in EnvsOf(sb.qualname[1], kwargs) :
        SubCall("Map", sb, "missing_keys", keys, kwargs, env,
                missing_keys(sb, keys, kwargs, env))

Call_no_results ==
    \E sb \in Named(SubBuilders, n_DB) :
    \E kwargs \in SubKwargs(sb.qualname[1]) : \E env \in EnvsOf(sb.qualname[1], kwargs) :
        SubCall("DB", sb, "no_results", <<"q", "u", "e", "r", "y", "i", "n", "g", " ", "u", "s", "e", "r", "s">>, kwargs, env,
                no_results(sb, <<"q", "u", "e", "r", "y", "i", "n", "g", " ", "u", "s", "e", "r", "s">>, kwargs, env))

Call_foreign_key_violation ==
    \E sb \in Named(SubBuilders, n_DB) :
    \E kwargs \in SubKwargs(sb.qualname[1]) : \E env \in EnvsOf(sb.qualname[1], kwargs) :
        SubCall("DB", sb, "foreign_key_violation", None, kwargs, env,
                foreign_key_violation(sb, kwargs, env))

Call_Docker_helper ==
    \E sb \in Named(SubBuilders, n_Docker) : \E helper \in DockerHelpers :
    \E container \in ContainerOpts :
    \E kwargs \in SubKwargs(sb.qualname[1]) : \E env \in EnvsOf(sb.qualname[1], kwargs) :
        SubCall("Docker", sb, helper, container, kwargs, env,
                Docker_helper(sb, helper, container, kwargs, env))

SubNext ==
    \/ Call_general
    \/ Call_File_helper
    \/ Call_missing_keys
    \/ Call_no_results
    \/ Call_foreign_key_violation
    \/ Call_Docker_helper
    \/ Continue

\* a caller of the sub-builders of both classes
SubSpec == Init /\ [][SubNext]_vars

(***************************************************************************)
(* What the specification expects of a call, stated apart from the code.   *)
(***************************************************************************)
BaseNamedOps ==
    {"database_error", "file_error", "runtime_error", "timeout_error",
     "parse_error", "value_error"}

NamedOps == BaseNamedOps \cup {"validation_error", "docker_error"}

\* the category tag a named factory is bound to
BoundTag(op) ==
    CASE op = "database_error" -> s_database_error
      [] op = "file_error" -> s_file_error
      [] op = "runtime_error" -> s_runtime_error
      [] op = "timeout_error" -> s_timeout_error
      [] op = "parse_error" -> s_parse_error
      [] op = "value_error" -> s_value_error
      [] op = "validation_error" -> s_validation_error
      [] op = "docker_error" -> s_docker_error

\* the tag with underscores replaced by spaces and its first letter capitalized
ReadableTag(t) == [i \in 1..Len(t) |->
                      IF i = 1 THEN CharUpper(t[1])
                      ELSE IF t[i] = "_" THEN " " ELSE t[i]]

\* the default message of a named factory: "<Readable tag> occurred."
DefaultBody(op) ==
    ReadableTag(BoundTag(op)) \o <<" ", "o", "c", "c", "u", "r", "r", "e", "d", ".">>

\* s with its first character lower-cased
LowerFirst(s) == [i \in 1..Len(s) |-> IF i = 1 THEN CharLower(s[1]) ELSE s[i]]

EndsWith(s, t) == Len(t) <= Len(s) /\ SubSeq(s, Len(s) - Len(t) + 1, Len(s)) = t

\* the message given by the caller, or the default message of the factory
BodyOf(c) == IF Has(c.kwargs, "msg") THEN Val(c.kwargs.msg) ELSE DefaultBody(c.op)

\* the call passes only keywords its class declares, and does not depend on
\* the call stack
PlainCall(c) ==
    /\ c.cls = "ErrorSchema" => ~Has(c.kwargs, "loc")
    /\ c.cls = "FastAPIErrorSchema" =>
           Has(c.kwargs, "auto_loc") \/ Has(c.kwargs, "loc")

\* C1: a named factory returns an instance whose type is the tag the factory
\* is bound to, and a call that passes type= raises the override ValueError
\* and returns nothing.
C1_TypeIsBoundTag ==
    last.op \in NamedOps =>
        /\ Has(last.kwargs, "type") =>
               last.out = Raised("ValueError", "Overriding the field is not allowed")
        /\ (~Has(last.kwargs, "type") /\ last.out.kind = "return") =>
               last.out.value.type = BoundTag(last.op)

C1_Witness ==
    /\ last.op = "docker_error"
    /\ ~Has(last.kwargs, "type")
    /\ Has(last.kwargs, "msg")
    /\ last.out.kind = "return"
    /\ last.out.value.type = s_docker_error

\* C2: a named factory of the base ErrorSchema, called with msg M or with no
\* msg, returns an instance whose msg is "<Readable T>: <body>", body being M
\* (or the default message) with its first character lower-cased.
C2_BaseMessageFormat ==
    (/\ last.op \in BaseNamedOps
     /\ last.cls = "ErrorSchema"
     /\ ~Has(last.kwargs, "type") /\ ~Has(last.kwargs, "exc")
     /\ ~Has(last.kwargs, "loc")) =>
        /\ last.out.kind = "return"
        /\ last.out.value.msg =
               ReadableTag(BoundTag(last.op)) \o <<":", " ">> \o LowerFirst(BodyOf(last))

\* C3: an instance returned by a named factory of either class has a
\* non-empty type, and its msg starts with the readable type followed by ": ".
C3_MessageStartsWithType ==
    (last.op \in NamedOps /\ last.out.kind = "return") =>
        /\ Len(last.out.value.type) > 0
        /\ StartsWith(last.out.value.msg,
                      ReadableTag(last.out.value.type) \o <<":", " ">>)

\* C4: a call of a factory that goes through the builder, of either class,
\* with exc= given succeeds, and the msg of the instance ends with the body
\* followed by " (<str(exc)>)".
C4_ExcTextAppended ==
    (/\ last.op \in NamedOps
     /\ Has(last.kwargs, "exc") /\ ~Has(last.kwargs, "type")
     /\ PlainCall(last)) =>
        /\ last.out.kind = "return"
        /\ EndsWith(last.out.value.msg,
                    Tail1(BodyOf(last)) \o ExcSuffix(Val(last.kwargs.exc)))

\* C7: customized_error(type=x, msg=m) returns an instance whose type is x
\* and whose msg is m exactly (with loc and input as supplied, for
\* FastAPIErrorSchema).
C7_CustomizedRoundTrip ==
    (/\ last.op = "customized_error"
     /\ Has(last.kwargs, "type") /\ Has(last.kwargs, "msg")
     /\ Len(Val(last.kwargs.msg)) > 0
     /\ ~Has(last.kwargs, "exc")
     /\ PlainCall(last)) =>
        /\ last.out.kind = "return"
        /\ last.out.value.type = Val(last.kwargs.type)
        /\ last.out.value.msg = Val(last.kwargs.msg)

\* the exception handed to from_exception is an Exception, and the call
\* passes only keywords its class declares
PlainCaught(c) ==
    /\ c.op = "from_exception"
    /\ IsException(Val(c.exc).mro)
    /\ PlainCall(c)

\* the cause from_exception is to report: __cause__, else __context__
RecordedCause(e) == IF ~IsNone(e.cause) THEN e.cause ELSE e.context

\* C5: from_exception(exc) of any Exception instance returns an instance
\* whose type is the mapper's tag for exc and whose msg is built from str(exc).
C5_FromExceptionAnyArgs ==
    (/\ PlainCaught(last)
     /\ \A i \in 1..Len(Val(last.exc).args) : Val(last.exc).args[i].kind = "str"
     /\ IsNone(RecordedCause(Val(last.exc)))) =>
        /\ last.out.kind = "return"
        /\ last.out.value.type =
               get_error_type_from_exception(
                   EmptyCache, EmptyCache, last.cls, Val(last.exc).mro).out.value
        /\ EndsWith(last.out.value.msg, Tail1(ExcStr(Val(last.exc))))

\* C6: from_exception of an exception with a recorded cause returns an
\* instance whose msg ends with the cause's text in parentheses, __cause__
\* taking precedence over __context__, for either class.
C6_CauseAppended ==
    (/\ PlainCaught(last)
     /\ Len(Val(last.exc).args) = 1
     /\ Val(last.exc).args[1].kind = "str"
     /\ ~IsNone(RecordedCause(Val(last.exc)))) =>
        /\ last.out.kind = "return"
        /\ EndsWith(last.out.value.msg,
                    Tail1(ExcStr(Val(last.exc)))
                    \o ExcSuffix(Val(RecordedCause(Val(last.exc)))))

\* the tag the table of a profile holds for a class, by module and class name
TableTag(schema_name, c) ==
    LET mapping == SCHEMA_TO_MAPPINGS[schema_name] IN
    IF c.module \in DOMAIN mapping /\ c.name \in DOMAIN mapping[c.module]
    THEN Some(mapping[c.module][c.name])
    ELSE None

\* the positions of the classes of an mro that have a table entry
EntryPositions(schema_name, mro) ==
    {i \in 1..Len(mro) : ~IsNone(TableTag(schema_name, mro[i]))}

Least(S) == CHOOSE i \in S : \A j \in S : i <= j

\* a lookup by exception, of an Exception, under a registered profile
MappedException(c) ==
    /\ c.op = "get_error_type_from_exception"
    /\ Val(c.schema) \in _valid_schemas
    /\ IsException(c.mro)

\* C8: get_error_type_from_exception returns the tag of the most specific
\* class of the exception's hierarchy that has a table entry under its own
\* module and name: a Child without an entry resolves to its Parent's tag.
C8_FirstEntryWins ==
    MappedException(last) =>
        /\ EntryPositions(Val(last.schema), last.mro) # {}
        /\ last.out =
               Returned(Val(TableTag(Val(last.schema),
                   last.mro[Least(EntryPositions(Val(last.schema), last.mro))])))

\* the exception classes other than the generic roots
Specific(mro) ==
    {i \in 1..Len(mro) :
        mro[i] \notin {Cls("builtins", "Exception"), Cls("builtins", "BaseException"),
                       Cls("builtins", "object")}}

\* the tags of the two tables, and the default tag
AllTags ==
    {DEFAULT_ERROR_TYPE} \cup
    UNION {UNION {{SCHEMA_TO_MAPPINGS[n][m][k] : k \in DOMAIN SCHEMA_TO_MAPPINGS[n][m]} :
                      m \in DOMAIN SCHEMA_TO_MAPPINGS[n]} : n \in _valid_schemas}

\* C9: under a registered profile, get_error_type_from_exception of an
\* Exception does not fail and returns a tag, never None; BaseException and
\* object are never looked up; and where no class of the hierarchy below
\* Exception has a table entry the tag is 'unknown_error'.
C9_MissIsDefaultTag ==
    MappedException(last) =>
        /\ last.out.kind = "return"
        /\ last.out.value \in AllTags
        /\ \A i \in 1..Len(last.looked) :
               last.looked[i] \notin
                   {Cls("builtins", "BaseException"), Cls("builtins", "object")}
        /\ (\A i \in Specific(last.mro) : IsNone(TableTag(Val(last.schema), last.mro[i])))
               => last.out.value = <<"u", "n", "k", "n", "o", "w", "n", "_", "e", "r", "r", "o", "r">>

C9_Witness ==
    /\ MappedException(last)
    /\ last.mro = mro_AppError
    /\ last.looked = <<Cls("app", "AppError"), Cls("builtins", "Exception")>>
    /\ last.out = Returned(DEFAULT_ERROR_TYPE)

CachedNames ==
    {IF IsNone(key) THEN "" ELSE Val(key) : key \in DOMAIN mapping_cache}
    \cup {key[1] : key \in DOMAIN type_cache}

\* C11: get_mapping, get_error_type, get_error_type_from_exception and
\* validate_schema, asked for a profile name that is not registered, raise
\* the 'Unknown schema' ValueError and leave no cache entry for that name;
\* get_mapping with no argument returns the table of the base profile.
C11_UnknownSchemaSignalled ==
    /\ (/\ last.op \in {"validate_schema", "get_mapping", "get_error_type",
                         "get_error_type_from_exception"}
        /\ ~IsNone(last.schema)
        /\ Val(last.schema) \notin _valid_schemas \cup {""}
        /\ last.op = "get_error_type_from_exception" => IsException(last.mro)) =>
           /\ last.out = Raised("ValueError", "Unknown schema")
           /\ Val(last.schema) \notin CachedNames
    /\ (last.op = "get_mapping" /\ IsNone(last.schema)) =>
           /\ last.out.kind = "return"
           /\ SCHEMA_TO_MAPPINGS[last.out.value] = EXCEPTION_MAPPINGS_BASE

\* C12: after clear_caches both caches are empty, and a lookup returns what
\* it returns on empty caches whatever the caches hold: the same result
\* before and after a clear.
C12_ClearEmptiesCaches ==
    /\ last.op = "clear_caches" =>
           DOMAIN mapping_cache = {} /\ DOMAIN type_cache = {}
    /\ last.op = "get_mapping" =>
           last.out = get_mapping(EmptyCache, last.schema).out
    /\ last.op = "get_error_type" =>
           last.out = get_error_type(EmptyCache, EmptyCache, Val(last.schema),
                                     last.module, last.name).out
    /\ \A key \in DOMAIN mapping_cache :
           Returned(mapping_cache[key]) = get_mapping(EmptyCache, key).out
    /\ \A key \in DOMAIN type_cache :
           Returned(type_cache[key]) =
               get_error_type(EmptyCache, EmptyCache, key[1], key[2], key[3]).out

C12_Witness ==
    /\ last.op = "clear_caches"
    /\ last.cached
    /\ DOMAIN mapping_cache = {} /\ DOMAIN type_cache = {}


\* C13: register_schema(name, mapping) of a name that is not registered
\* succeeds and makes get_mapping(name) return the mapping; of a name that is
\* registered it fails with the 'already registered' signal.
C13_RegisterSchema ==
    last.op = "register_schema" =>
        IF Val(last.schema) \in _valid_schemas
        THEN last.out = Raised("ValueError", "already registered")
        ELSE /\ last.out.kind = "return"
             /\ get_mapping(mapping_cache, last.schema).out.kind = "return"

\* C14: with threads that register profiles and threads that look up at the
\* same time, every registration takes effect or is refused as a duplicate,
\* and no finished lookup holds a value other than the one the registry
\* gives for its profile.
C14_AtomicRegistration ==
    \A t \in Threads :
        last.of[t].pc = "done" =>
            /\ last.of[t].op = "register_schema" =>
                   IF Val(last.of[t].schema) \in _valid_schemas
                   THEN last.of[t].out = Raised("ValueError", "already registered")
                   ELSE last.of[t].out.kind = "return"
            /\ (last.of[t].op = "get_error_type" /\ last.of[t].out.kind = "return") =>
                   last.of[t].out.value =
                       TableTag(Val(last.of[t].schema),
                                Cls(last.of[t].module, last.of[t].name))

\* the objects a sequence of values refers to
RefsOf(items) == {items[i].id : i \in {j \in 1..Len(items) : items[j].kind = "ref"}}

\* the instances a sequence of references refers to, in order
ValuesOf(objs, items) == [i \in 1..Len(items) |-> objs[items[i].id]]

GroupMutators == {"append", "extend", "setitem"}

\* C15: every element of an ErrGroup is an ErrorSchema instance and every
\* element of a FastAPIErrGroup is a FastAPIErrorSchema instance, after any
\* sequence of append, extend, __setitem__, clear and copy calls, successful
\* or failing.
C15_ElementsConform ==
    \A n \in GroupNames : \A i \in 1..Len(last[n].items) :
        IsSchemaInstance(last.objs, last[n].items[i], ElementClass(last[n].cls))

\* a FastAPIErrGroup has refused a plain ErrorSchema while holding a member
C15_Witness ==
    /\ last.op = "append"
    /\ last[last.recv].cls = "FastAPIErrGroup"
    /\ Len(last[last.recv].items) > 0
    /\ last.arg.kind = "ref"
    /\ last.objs[last.arg.id].cls = "ErrorSchema"
    /\ last.out.kind = "raise"

\* C16: an append, extend or __setitem__ that raises leaves the group, and
\* every instance, as they were before the call: no prefix of a list is
\* added.
C16_RejectedLeavesGroup ==
    [][(last'.op \in GroupMutators /\ last'.out.kind = "raise") =>
           /\ last'.g = last.g
           /\ last'.h = last.h
           /\ last'.objs = last.objs]_vars

\* extend has refused a list whose first element conforms and whose second
\* does not
C16_Witness ==
    /\ last.op = "extend"
    /\ last.out.kind = "raise"
    /\ last.arg.kind = "list"
    /\ Len(last.arg.items) = 2
    /\ IsSchemaInstance(last.objs, last.arg.items[1], ElementClass(last[last.recv].cls))
    /\ last.arg.items[2] = NotASchema

\* C17: extend(S) on an empty group, S a list of conforming schemas, gives a
\* group of length len(S) whose to_list() is value-equal to S in the same
\* order; and the list to_list() returns holds copies: it is value-equal to
\* the members and refers to none of the objects the groups refer to.
C17_ExtendThenToList ==
    /\ [](last.op = "to_list" =>
             /\ Len(last.out.value.items) = Len(last[last.recv].items)
             /\ ValuesOf(last.objs, last.out.value.items)
                    = ValuesOf(last.objs, last[last.recv].items)
             /\ RefsOf(last.out.value.items)
                    \cap (RefsOf(last.g.items) \cup RefsOf(last.h.items)) = {})
    /\ [][(/\ last'.op = "extend"
           /\ last'.arg.kind = "list"
           /\ last[last'.recv].items = <<>>
           /\ \A i \in 1..Len(last'.arg.items) :
                  IsSchemaInstance(last.objs, last'.arg.items[i],
                                   ElementClass(last[last'.recv].cls))) =>
              /\ last'.out.kind = "return"
              /\ Len(last'[last'.recv].items) = Len(last'.arg.items)
              /\ LET c == to_list(last'.objs, last'[last'.recv].items)
                 IN  ValuesOf(c.objs, c.items) = ValuesOf(last.objs, last'.arg.items)]_vars

\* to_list of a group of two members has returned
C17_Witness ==
    /\ last.op = "to_list"
    /\ Len(last[last.recv].items) = 2
    /\ Len(last.out.value.items) = 2

\* C18: right after copy() the copy's to_dicts() equals the original's, the
\* copy refers to none of the original's objects, and a change of a field of
\* any member of the one leaves the to_dicts() of the other as it was.
C18_CopyIsDeep ==
    last.op = "copy" =>
        LET orig == last[last.recv]
            made == last[OtherGroup(last.recv)]
            changed(id) == [last.objs EXCEPT ![id].msg = <<"c", "h", "a", "n", "g", "e", "d">>]
        IN  /\ made.cls = orig.cls
            /\ \A target \in TargetOpts :
                   to_dicts(last.objs, made.items, target)
                       = to_dicts(last.objs, orig.items, target)
            /\ RefsOf(made.items) \cap RefsOf(orig.items) = {}
            /\ \A id \in RefsOf(orig.items) : \A target \in TargetOpts :
                   to_dicts(changed(id), made.items, target)
                       = to_dicts(last.objs, made.items, target)
            /\ \A id \in RefsOf(made.items) : \A target \in TargetOpts :
                   to_dicts(changed(id), orig.items, target)
                       = to_dicts(last.objs, orig.items, target)

\* a group with a member has been copied
C18_Witness ==
    /\ last.op = "copy"
    /\ Len(last[last.recv].items) > 0
    /\ Len(last[OtherGroup(last.recv)].items) = Len(last[last.recv].items)

\* C19: contains_type(tag) is true exactly when the type of some member
\* equals tag without regard to letter case.
C19_ContainsTypeIgnoresCase ==
    last.op = "contains_type" =>
        last.out.value =
            (\E i \in 1..Len(last[last.recv].items) :
                StrLower(last.objs[last[last.recv].items[i].id].type) = StrLower(last.arg))

\* the frontend message the views are said to carry: ui_msg when it is set
FrontendMsg(e) == IF IsNone(e.ui_msg) THEN e.msg ELSE Val(e.ui_msg)

\* C20: the views of the extended schema: to_dicts("backend") gives, member
\* by member and in order, a mapping with exactly the keys type, msg, loc and
\* input; to_dicts("frontend") gives one with exactly the keys msg and input,
\* its msg being ui_msg when ui_msg is set and msg otherwise.
C20_SerializedViews ==
    (last.op = "to_dicts" /\ last[last.recv].cls = "FastAPIErrGroup") =>
        /\ Len(last.out.value) = Len(last[last.recv].items)
        /\ \A i \in 1..Len(last.out.value) :
               LET e == last.objs[last[last.recv].items[i].id]
                   d == last.out.value[i]
               IN  IF last.arg = "frontend"
                   THEN /\ DOMAIN d = {"msg", "input"}
                        /\ d.msg = FrontendMsg(e)
                        /\ d.input = e.input
                   ELSE /\ DOMAIN d = {"type", "msg", "loc", "input"}
                        /\ d = [type |-> e.type, msg |-> e.msg, loc |-> e.loc,
                                input |-> e.input]

\* the name a sub-builder shows in its messages: the override it declares,
\* or its own identifier
DisplayName(sb) ==
    IF IsNone(sb.display_name) THEN sb.qualname[2] ELSE Val(sb.display_name)

\* the message of an instance after its "<Readable type>: " prefix
MessageBody(inst) ==
    SubSeq(inst.msg, Len(inst.type) + 3, Len(inst.msg))

\* C21: general(action, reason) with both given raises ValueError and
\* produces no instance; with only action given the message body is
\* "<Name> error occurred while <action>.", with only reason given it is
\* "<Name> error occurred since <reason>.", Name being the display name.
C21_GeneralOneOf ==
    last.op = "general" =>
        LET action == last.arg.action
            reason == last.arg.reason
            name == DisplayName(last.sb)
        IN  /\ (~IsNone(action) /\ ~IsNone(reason)) =>
                   (last.out.kind = "raise" /\ last.out.error = "ValueError")
            /\ (~IsNone(action) /\ IsNone(reason) /\ last.out.kind = "return") =>
                   MessageBody(last.out.value) =
                       name \o <<" ", "e", "r", "r", "o", "r", " ", "o", "c", "c", "u", "r", "r", "e", "d", " ", "w", "h", "i", "l", "e", " ">> \o Val(action) \o <<".">>
            /\ (IsNone(action) /\ ~IsNone(reason) /\ last.out.kind = "return") =>
                   MessageBody(last.out.value) =
                       name \o <<" ", "e", "r", "r", "o", "r", " ", "o", "c", "c", "u", "r", "r", "e", "d", " ", "s", "i", "n", "c", "e", " ">> \o Val(reason) \o <<".">>

\* t occurs in s
Contains(s, t) ==
    \E i \in 1..(Len(s) - Len(t) + 1) : SubSeq(s, i, i + Len(t) - 1) = t

\* the word for a path: "file" when its last component has an extension
PathWord(path) ==
    LET comps == PathOf(path).comps
        last_name == IF Len(comps) = 0 THEN <<>> ELSE comps[Len(comps)]
    IN  IF \E j \in 2..(Len(last_name) - 1) : last_name[j] = "."
        THEN <<"f", "i", "l", "e">> ELSE <<"d", "i", "r", "e", "c", "t", "o", "r", "y">>

\* C22: a helper of File returns an instance of type file_error whose message
\* names the path, after the word "file" or "directory" that fits the path;
\* the message of not_found contains "<File|Directory> '<path>' not found.".
C22_FileHelpers ==
    (last.op = "File" /\ last.out.kind = "return") =>
        /\ last.out.value.type = s_file_error
        /\ Contains(StrLower(last.out.value.msg),
                    StrLower(PathWord(last.arg) \o <<" ">> \o Quoted(last.arg)))
        /\ last.helper = "not_found" =>
               Contains(last.out.value.msg,
                        Capitalize(PathWord(last.arg)) \o <<" ">> \o Quoted(last.arg)
                            \o <<" ", "n", "o", "t", " ", "f", "o", "u", "n", "d", ".">>)

\* the outcome of the call c had it been made on the sub-builder sb
SubOutcome(c, sb) ==
    CASE c.op = "general" ->
             general(sb, c.arg.action, c.arg.reason, c.kwargs, c.env)
      [] c.op = "File" -> File_helper(sb, c.helper, c.arg, c.kwargs, c.env)
      [] c.op = "Map" -> missing_keys(sb, c.arg, c.kwargs, c.env)
      [] c.op = "DB" /\ c.helper = "no_results" ->
             no_results(sb, c.arg, c.kwargs, c.env)
      [] c.op = "DB" /\ c.helper = "foreign_key_violation" ->
             foreign_key_violation(sb, c.kwargs, c.env)
      [] c.op = "Docker" -> Docker_helper(sb, c.helper, c.arg, c.kwargs, c.env)

SubOps == {"general", "File", "Map", "DB", "Docker"}

\* C23: the display name of a sub-builder bears on the wording only: the
\* instance a sub-builder with an overridden display name returns has the
\* type the same call returns without the override.
C23_DisplayNameOnlyWording ==
    (last.op \in SubOps /\ last.out.kind = "return") =>
        LET plain == SubOutcome(last, [last.sb EXCEPT !.display_name = None])
        IN  /\ plain.kind = "return"
            /\ plain.value.type = last.out.value.type

\* C24: a sub-builder reached through a schema class returns an instance of
\* that class: through FastAPIErrorSchema a FastAPIErrorSchema, with ui_msg,
\* loc and input, built by its own builder (ui_msg is set); through
\* ErrorSchema a base ErrorSchema with type and msg only.
C24_InstanceOfVariant ==
    (last.op \in SubOps /\ last.out.kind = "return") =>
        /\ last.out.value.cls = last.sb.qualname[1]
        /\ last.sb.qualname[1] = "FastAPIErrorSchema" =>
               /\ DOMAIN last.out.value = {"cls", "type", "msg", "ui_msg", "loc", "input"}
               /\ ~IsNone(last.out.value.ui_msg)
        /\ last.sb.qualname[1] = "ErrorSchema" =>
               DOMAIN last.out.value = {"cls", "type", "msg"}

\* a helper of FastAPIErrorSchema.File has returned an instance that carries
\* the caller's location
C24_Witness ==
    /\ last.op = "File"
    /\ last.sb.qualname[1] = "FastAPIErrorSchema"
    /\ last.out.kind = "return"
    /\ last.out.value.cls = "FastAPIErrorSchema"
    /\ Len(last.out.value.loc) = 1
    /\ ~Has(last.kwargs, "loc")

\* the names in a list
NamesIn(seq) == {seq[i] : i \in 1..Len(seq)}

\* the named factories of a class, by their tags
NamedFactoryTags(cls) ==
    {BoundTag(op) : op \in IF cls = "FastAPIErrorSchema" THEN NamedOps ELSE BaseNamedOps}

\* C25: list_available_errors() returns exactly the names of the named
\* factories of the class: neither customized_error nor _create_error.
C25_ListsNamedFactories ==
    last.op = "list_available_errors" =>
        /\ last.out.kind = "return"
        /\ NamesIn(last.out.value) = NamedFactoryTags(last.cls)

\* what the code lists: each once, the names of the named factories of the
\* class and the name customized_error; the builder _create_error,
\* from_exception and the other methods are not listed.
ListsPublicErrorFactories ==
    last.op = "list_available_errors" =>
        /\ last.out.kind = "return"
        /\ NamesIn(last.out.value) = NamedFactoryTags(last.cls) \cup {s_customized_error}
        /\ Len(last.out.value) = Cardinality(NamedFactoryTags(last.cls)) + 1

\* the listing of FastAPIErrorSchema has returned and holds docker_error
ListsDockerError ==
    /\ last.op = "list_available_errors"
    /\ last.cls = "FastAPIErrorSchema"
    /\ last.out.kind = "return"
    /\ s_docker_error \in NamesIn(last.out.value)

\* the frames of a stack that lie outside the library
OutsideFrames(env) ==
    SelectSeq(env.stack, LAMBDA f : ~StartsWith(f.filename, ROOT_DIR))

\* the call leaves the location to the resolver
AutoLocated(c) ==
    /\ c.cls = "FastAPIErrorSchema"
    /\ ~Has(c.kwargs, "auto_loc") /\ ~Has(c.kwargs, "loc") /\ ~Has(c.kwargs, "type")

\* C26: a factory call with automatic location never fails because of the
\* location: with no frame outside the library the instance has no location,
\* otherwise its location is "<file>:<line>:<function>" of the innermost
\* frame outside the library, the file being the raw path when the
\* entry-point directory is unknown.
C26_LocationNeverRaises ==
    (last.op \in NamedOps /\ AutoLocated(last)) =>
        LET outside == OutsideFrames(last.env) IN
        /\ last.out.kind = "return"
        /\ Len(outside) = 0 => last.out.value.loc = <<>>
        /\ Len(outside) > 0 =>
               /\ Len(last.out.value.loc) = 1
               /\ EndsWith(last.out.value.loc[1],
                           <<":">> \o IntStr(outside[1].lineno) \o <<":">>
                               \o outside[1].function)
               /\ IsNone(last.env.main_file) =>
                      StartsWith(last.out.value.loc[1], outside[1].filename)

\* the first of the given optional strings, or the default
FirstGiven(a, b, default) ==
    IF ~IsNone(a) THEN Val(a) ELSE IF ~IsNone(b) THEN Val(b) ELSE default

\* C27: in the builder of FastAPIErrorSchema the backend message is taken
\* from msg, else from ui_msg, else from the default message, and the
\* exception text is appended to it; the frontend message is taken from
\* ui_msg, else from msg, else from the default message, without the
\* exception text.
C27_MessagePrecedence ==
    (/\ last.op \in NamedOps
     /\ last.cls = "FastAPIErrorSchema"
     /\ last.out.kind = "return") =>
        LET backend == FirstGiven(last.kwargs.msg, last.kwargs.ui_msg, DefaultBody(last.op))
            frontend == FirstGiven(last.kwargs.ui_msg, last.kwargs.msg, DefaultBody(last.op))
            suffix == IF Has(last.kwargs, "exc") THEN ExcSuffix(Val(last.kwargs.exc))
                      ELSE <<>>
        IN  /\ EndsWith(last.out.value.msg, Tail1(backend) \o suffix)
            /\ StrLower(Val(last.out.value.ui_msg)) = StrLower(Strip(frontend))

\* C28: with threads that look up and clear the caches at the same time,
\* every cached entry equals the table's answer, no call fails, and every
\* finished lookup holds what the lookup gives without any cache: the
\* profile's table, the table's tag or None, the tag of the walk or the
\* default tag.
C28_CacheCoherence ==
    /\ \A key \in DOMAIN mapping_cache : mapping_cache[key] = Val(key)
    /\ \A key \in DOMAIN type_cache :
           type_cache[key] = TableTag(key[1], Cls(key[2], key[3]))
    /\ \A t \in Threads :
           last.of[t].pc = "done" =>
               LET c == last.of[t] IN
               /\ c.out.kind = "return"
               /\ c.op = "get_mapping" => c.out.value = Val(c.schema)
               /\ c.op = "get_error_type" =>
                      c.out.value = TableTag(Val(c.schema), Cls(c.module, c.name))
               /\ c.op = "get_error_type_from_exception" =>
                      c.out = get_error_type_from_exception(EmptyCache, EmptyCache,
                                                            Val(c.schema), c.mro).out

\* a lookup that missed has finished with the table's tag after another
\* thread cleared the caches, and its entry is in the cache
C28_Witness ==
    \E t, u \in Threads :
        /\ last.of[t].pc = "done"
        /\ last.of[t].op = "get_error_type"
        /\ last.of[t].out = Returned(Some(s_validation_error))
        /\ last.of[u].pc = "done"
        /\ last.of[u].op = "clear_caches"
        /\ <<"FastAPIErrorSchema", "pydantic_core._pydantic_core", "ValidationError">>
               \in DOMAIN type_cache


\* C29: through append_loc(l) every member's loc becomes its previous loc
\* with exactly one l added at the end, through extend_loc(L) its previous
\* loc followed by L once; the group's elements and the members' other
\* fields stay as they were.
LocAdded(added) ==
    /\ last'.g = last.g
    /\ Len(last'.objs) = Len(last.objs)
    /\ \A i \in 1..Len(last.g) :
           LET id == last.g[i].id
           IN  last'.objs[id] = [last.objs[id] EXCEPT !.loc = @ \o added]

C29_LocAppendOnly ==
    [][/\ last'.op = "append_loc" => LocAdded(<<last'.arg>>)
       /\ last'.op = "extend_loc" => LocAdded(last'.arg)]_vars


\* C30: through update_input(d, overwrite=False) each member's input becomes
\* its previous input merged with d, d's values winning; through
\* update_input(d, overwrite=True) it becomes equal to d; after either no two
\* members hold the same input mapping and none holds the caller's d; and a
\* change made in place to one member's input, or to d, leaves the input of
\* every other member as it was.
MemberIds(items) == {items[i].id : i \in 1..Len(items)}

InputOf(objs, dicts, id) == dicts[objs[id].input]

InputsKept(ids) ==
    \A id \in ids :
        InputOf(last'.objs, last'.dicts, id) = InputOf(last.objs, last.dicts, id)

C30_OwnInputMapping ==
    [][/\ last'.op = "update_input" =>
              /\ \A id \in MemberIds(last.g) :
                     InputOf(last'.objs, last'.dicts, id) =
                         IF last'.arg.overwrite
                         THEN last'.arg.input_dict
                         ELSE last'.arg.input_dict @@ InputOf(last.objs, last.dicts, id)
              /\ \A id \in MemberIds(last.g) : last'.objs[id].input # last'.d
              /\ \A id, other \in MemberIds(last.g) :
                     id # other => last'.objs[id].input # last'.objs[other].input
       /\ last'.op = "change_input" =>
              InputsKept(MemberIds(last.g) \ {last.g[last'.arg].id})
       /\ last'.op = "change_d" => InputsKept(MemberIds(last.g))]_vars

====
